---------------------------- MODULE Spec2Model ----------------------------
(***************************************************************************)
(* A model of the streaming core of adf_agent:                             *)
(*   - StreamState.handle_event        (src/adf_agent/cli.py)              *)
(*   - ToolCallTracker                 (src/adf_agent/stream/tracker.py)   *)
(*   - TokenTracker                    (src/adf_agent/stream/token_tracker.py) *)
(* Python strings are modelled as sequences of text chunks (concatenation  *)
(* is \o, the empty string is << >>), dicts as functions whose DOMAIN is   *)
(* the set of keys present, and None as the record PyNone.                 *)
(***************************************************************************)
EXTENDS Integers, Sequences, FiniteSets, TLC

\* ------------------------------------------------------------------------
\* Bounds of the model
\* ------------------------------------------------------------------------
\* Number of events fed to one StreamState.
MaxEvents == 4

\* Number of operations applied to one ToolCallTracker.
MaxOps == 4

\* Number of operations applied to one TokenTracker.
MaxTokenOps == 4

\* Largest input/output token count of a usage report.
MaxTok == 2

\* ------------------------------------------------------------------------
\* Python values
\* ------------------------------------------------------------------------
PyNone == [py_none |-> TRUE]

\* None where the other values are strings.
NoneStr == "<None>"

EmptyStr == << >>

EmptyDict == << >>

\* dict.get(key, default)
Get(d, k, default) == IF k \in DOMAIN d THEN d[k] ELSE default

\* Truthiness of a str or a dict: non-empty.
Truthy(v) == DOMAIN v # {}

ArgsLs == [cmd |-> "ls"]

\* ------------------------------------------------------------------------
\* StreamState (cli.py)
\* ------------------------------------------------------------------------
VARIABLES
    thinking_text, response_text, tool_calls, tool_results,
    is_thinking, is_responding, is_processing,
    token_usage, turn_token_usages,
    event,      \* the event handed to the last handle_event call
    ret,        \* what that call returned
    nevents     \* number of events handled so far

stateVars == << thinking_text, response_text, tool_calls, tool_results,
                is_thinking, is_responding, is_processing,
                token_usage, turn_token_usages, event, ret, nevents >>

\* ToolCallTracker (stream/tracker.py)
VARIABLES
    calls,          \* self._calls: the ToolCallInfo records in dict (insertion) order
    last_tool_id,   \* self._last_tool_id
    t_op,           \* the last tracker operation and its arguments
    t_nops          \* number of tracker operations so far

trackerVars == << calls, last_tool_id, t_op, t_nops >>

\* TokenTracker (stream/token_tracker.py)
VARIABLES
    current_turn,       \* self._current_turn
    total,              \* self._total
    has_current_usage,  \* self._has_current_usage
    k_op,               \* the last TokenTracker operation, its argument and result
    k_nops              \* number of TokenTracker operations so far

tokenVars == << current_turn, total, has_current_usage, k_op, k_nops >>

\* One command's consumer loop (cmd_run, cmd_interactive in cli.py)
VARIABLES
    stream,     \* the events agent.stream_events yields, in order
    pc,         \* where the command is
    live,       \* whether the Live display is running
    shown,      \* the renderable last handed to live.update
    painted,    \* the renderable last painted on the terminal
    final       \* what display_final_results was given

loopVars == << stream, pc, live, shown, painted, final >>

\* One call of compute_height_budget and one of truncate_to_lines (cli.py)
VARIABLES
    budget_args,    \* the arguments of the compute_height_budget call
    heights,        \* what it returned
    trunc_args,     \* the arguments of the truncate_to_lines call
    truncated       \* what it returned, as [text |-> ...]

layoutVars == << budget_args, heights, trunc_args, truncated >>

\* One call of ToolResultFormatter.format (stream/formatter.py)
VARIABLES
    fmt_content,    \* the tool result content it was given
    fmt_result      \* the content_type and success of the FormattedResult

formatVars == << fmt_content, fmt_result >>

\* One call of a StreamEventEmitter constructor (stream/emitter.py)
VARIABLES
    emit_call,      \* the constructor called and its arguments
    emitted         \* the StreamEvent it returned

emitterVars == << emit_call, emitted >>

vars == << stateVars, trackerVars, tokenVars, loopVars, layoutVars, formatVars,
           emitterVars >>

\* The events the upstream emitter can hand over (emitter.py), plus events
\* with keys left out, which handle_event reads with event.get(key, default).
ThinkingEvents ==
    { [type |-> "thinking"],
      [type |-> "thinking", content |-> <<"t">>] }

TextEvents ==
    { [type |-> "text"],
      [type |-> "text", content |-> <<"x">>] }

ToolCallEvents ==
    { [type |-> "tool_call", id |-> "A", name |-> "Bash", args |-> ArgsLs],
      [type |-> "tool_call", id |-> "A", name |-> "Read", args |-> EmptyDict],
      [type |-> "tool_call", id |-> "A", name |-> "", args |-> EmptyDict],
      [type |-> "tool_call", id |-> "B", name |-> "Bash", args |-> ArgsLs],
      [type |-> "tool_call", id |-> "", name |-> "Bash", args |-> ArgsLs],
      [type |-> "tool_call"],
      [type |-> "tool_call", id |-> "A", name |-> "Bash"],
      [type |-> "tool_call", id |-> "A", args |-> ArgsLs] }

ToolResultEvents ==
    { [type |-> "tool_result"],
      [type |-> "tool_result", name |-> "Bash", content |-> <<"[OK]">>] }

DoneEvents ==
    { [type |-> "done"],
      [type |-> "done", response |-> <<"r">>] }

Usage1 == [input_tokens |-> 100, output_tokens |-> 20, total_tokens |-> 120,
           cache_creation_input_tokens |-> 0, cache_read_input_tokens |-> 0]

\* StreamEventEmitter.token_usage(100, 20, ...), an event with every key but
\* the type left out, and an aggregate event that carries no counts.
UsageEvent(is_total, parallel_count) ==
    [type |-> "token_usage",
     input_tokens |-> Usage1.input_tokens,
     output_tokens |-> Usage1.output_tokens,
     total_tokens |-> Usage1.total_tokens,
     cache_creation_input_tokens |-> Usage1.cache_creation_input_tokens,
     cache_read_input_tokens |-> Usage1.cache_read_input_tokens,
     is_total |-> is_total, parallel_count |-> parallel_count]

TokenUsageEvents ==
    { [type |-> "token_usage"], UsageEvent(TRUE, 1),
      [type |-> "token_usage", is_total |-> TRUE] }
    \cup { UsageEvent(FALSE, p) : p \in {1, 2, 3} }

ErrorEvents ==
    { [type |-> "error"],
      [type |-> "error", message |-> <<"boom">>] }

OtherEvents ==
    { [type |-> "heartbeat"],
      [content |-> <<"x">>] }

Events ==
    ThinkingEvents \cup TextEvents \cup ToolCallEvents \cup ToolResultEvents
    \cup DoneEvents \cup TokenUsageEvents \cup ErrorEvents \cup OtherEvents

\* event.get("type"): None when the key is missing.
EventType(e) == IF "type" \in DOMAIN e THEN e.type ELSE NoneStr

InitState ==
    /\ thinking_text = EmptyStr
    /\ response_text = EmptyStr
    /\ tool_calls = << >>
    /\ tool_results = << >>
    /\ is_thinking = FALSE
    /\ is_responding = FALSE
    /\ is_processing = FALSE
    /\ token_usage = PyNone
    /\ turn_token_usages = << >>
    /\ event = PyNone
    /\ ret = NoneStr
    /\ nevents = 0

\* Every handle_event call ends with `return event_type`.
Returned(e) ==
    /\ event' = e
    /\ ret' = EventType(e)
    /\ nevents' = nevents + 1
    /\ UNCHANGED << trackerVars, tokenVars, layoutVars, formatVars, emitterVars >>

\* A thinking branch that forgets to clear is_processing.
OnThinking_KeepsProcessing(e) ==
    /\ EventType(e) = "thinking"
    /\ is_thinking' = TRUE
    /\ is_responding' = FALSE
    /\ thinking_text' = thinking_text \o Get(e, "content", EmptyStr)
    /\ UNCHANGED << response_text, tool_calls, tool_results, token_usage,
                    turn_token_usages, is_processing >>
    /\ Returned(e)

OnThinking(e) ==
    /\ EventType(e) = "thinking"
    /\ is_thinking' = TRUE
    /\ is_responding' = FALSE
    /\ is_processing' = FALSE
    /\ thinking_text' = thinking_text \o Get(e, "content", EmptyStr)
    /\ UNCHANGED << response_text, tool_calls, tool_results, token_usage,
                    turn_token_usages >>
    /\ Returned(e)

\* A text branch that forgets to clear is_thinking.
OnText_KeepsThinking(e) ==
    /\ EventType(e) = "text"
    /\ is_responding' = TRUE
    /\ is_processing' = FALSE
    /\ response_text' = response_text \o Get(e, "content", EmptyStr)
    /\ UNCHANGED << thinking_text, tool_calls, tool_results, token_usage,
                    turn_token_usages, is_thinking >>
    /\ Returned(e)

OnText(e) ==
    /\ EventType(e) = "text"
    /\ is_thinking' = FALSE
    /\ is_responding' = TRUE
    /\ is_processing' = FALSE
    /\ response_text' = response_text \o Get(e, "content", EmptyStr)
    /\ UNCHANGED << thinking_text, tool_calls, tool_results, token_usage,
                    turn_token_usages >>
    /\ Returned(e)

\* tc_data of the tool_call branch.
TcData(e) ==
    [id |-> Get(e, "id", ""),
     name |-> Get(e, "name", "unknown"),
     args |-> Get(e, "args", EmptyDict)]

\* A dedup that drops the stale record and does not put the new one back.
UpsertToolCall_Drop(tcs, tc) ==
    IF tc.id # "" /\ \E i \in 1..Len(tcs) : tcs[i].id = tc.id
    THEN SelectSeq(tcs, LAMBDA r : r.id # tc.id)
    ELSE Append(tcs, tc)

\* A dedup that merges, keeping the stored name/args where the event's are empty.
UpsertToolCall_Merge(tcs, tc) ==
    IF tc.id # "" /\ \E i \in 1..Len(tcs) : tcs[i].id = tc.id
    THEN LET i == CHOOSE k \in 1..Len(tcs) : tcs[k].id = tc.id
         IN  [tcs EXCEPT ![i] =
                 [id |-> tc.id,
                  name |-> IF tc.name # "" THEN tc.name ELSE @.name,
                  args |-> IF Truthy(tc.args) THEN tc.args ELSE @.args]]
    ELSE Append(tcs, tc)

\* The `for i, tc in enumerate(self.tool_calls)` loop: the first index whose
\* record carries tool_id, 0 when the loop ends without a match.
FirstIndexOf(tcs, tool_id) ==
    IF \E i \in 1..Len(tcs) : tcs[i].id = tool_id
    THEN CHOOSE i \in 1..Len(tcs) :
             /\ tcs[i].id = tool_id
             /\ \A j \in 1..(i - 1) : tcs[j].id # tool_id
    ELSE 0

\* A dedup without the `if tool_id` test: the empty id is matched like any other.
UpsertToolCall_DedupsEmptyId(tcs, tc) ==
    IF FirstIndexOf(tcs, tc.id) # 0
    THEN [tcs EXCEPT ![FirstIndexOf(tcs, tc.id)] = tc]
    ELSE Append(tcs, tc)

\* Deduplicate and update by tool_id.
UpsertToolCall(tcs, tc) ==
    IF tc.id # "" /\ FirstIndexOf(tcs, tc.id) # 0
    THEN [tcs EXCEPT ![FirstIndexOf(tcs, tc.id)] = tc]
    ELSE Append(tcs, tc)

OnToolCall(e) ==
    /\ EventType(e) = "tool_call"
    /\ is_thinking' = FALSE
    /\ is_responding' = FALSE
    /\ is_processing' = FALSE
    /\ tool_calls' = UpsertToolCall(tool_calls, TcData(e))
    /\ UNCHANGED << thinking_text, response_text, tool_results, token_usage,
                    turn_token_usages >>
    /\ Returned(e)

OnToolResult(e) ==
    /\ EventType(e) = "tool_result"
    /\ is_processing' = TRUE
    /\ tool_results' = Append(tool_results,
                              [name |-> Get(e, "name", "unknown"),
                               content |-> Get(e, "content", EmptyStr)])
    /\ UNCHANGED << thinking_text, response_text, tool_calls, is_thinking,
                    is_responding, token_usage, turn_token_usages >>
    /\ Returned(e)

\* A done branch without the `if not self.response_text` test.
OnDone_AlwaysAdopts(e) ==
    /\ EventType(e) = "done"
    /\ is_processing' = FALSE
    /\ response_text' = Get(e, "response", EmptyStr)
    /\ UNCHANGED << thinking_text, tool_calls, tool_results, is_thinking,
                    is_responding, token_usage, turn_token_usages >>
    /\ Returned(e)

OnDone(e) ==
    /\ EventType(e) = "done"
    /\ is_processing' = FALSE
    /\ response_text' = IF response_text = EmptyStr
                        THEN Get(e, "response", EmptyStr)
                        ELSE response_text
    /\ UNCHANGED << thinking_text, tool_calls, tool_results, is_thinking,
                    is_responding, token_usage, turn_token_usages >>
    /\ Returned(e)

\* The usage dict built from a token_usage event.
UsageOf(e) ==
    [input_tokens |-> Get(e, "input_tokens", 0),
     output_tokens |-> Get(e, "output_tokens", 0),
     total_tokens |-> Get(e, "total_tokens", 0),
     cache_creation_input_tokens |-> Get(e, "cache_creation_input_tokens", 0),
     cache_read_input_tokens |-> Get(e, "cache_read_input_tokens", 0)]

\* usage["parallel_count"] = parallel_count
WithParallel(u, n) == u @@ [parallel_count |-> n]

\* while len(self.turn_token_usages) < len(self.tool_results) - 1: append(None)
RECURSIVE BackFill(_, _)
BackFill(usages, nresults) ==
    IF Len(usages) < nresults - 1
    THEN BackFill(Append(usages, PyNone), nresults)
    ELSE usages

\* A per-turn branch that never back-fills for parallel tools.
PerTurnUsages_NoFill(usages, nresults, u, parallel_count) ==
    LET entry == IF parallel_count > 1 THEN WithParallel(u, parallel_count) ELSE u
    IN  IF nresults > Len(usages) THEN Append(usages, entry) ELSE usages

\* A per-turn branch without the `len(tool_results) > len(turn_token_usages)` test.
PerTurnUsages_AlwaysAppend(usages, nresults, u, parallel_count) ==
    LET filled == IF parallel_count > 1 THEN BackFill(usages, nresults) ELSE usages
        entry == IF parallel_count > 1 THEN WithParallel(u, parallel_count) ELSE u
    IN  Append(filled, entry)

\* The per-turn (is_total false) branch.
PerTurnUsages(usages, nresults, u, parallel_count) ==
    LET filled == IF parallel_count > 1 THEN BackFill(usages, nresults) ELSE usages
        entry == IF parallel_count > 1 THEN WithParallel(u, parallel_count) ELSE u
    IN  IF nresults > Len(filled) THEN Append(filled, entry) ELSE filled

\* A token_usage branch that keeps the first aggregate it was given.
OnTokenUsage_KeepsFirstTotal(e) ==
    /\ EventType(e) = "token_usage"
    /\ IF Get(e, "is_total", FALSE)
       THEN /\ token_usage' = IF token_usage = PyNone THEN UsageOf(e) ELSE token_usage
            /\ UNCHANGED turn_token_usages
       ELSE /\ turn_token_usages' =
                   PerTurnUsages(turn_token_usages, Len(tool_results),
                                 UsageOf(e), Get(e, "parallel_count", 1))
            /\ UNCHANGED token_usage
    /\ UNCHANGED << thinking_text, response_text, tool_calls, tool_results,
                    is_thinking, is_responding, is_processing >>
    /\ Returned(e)

OnTokenUsage(e) ==
    /\ EventType(e) = "token_usage"
    /\ IF Get(e, "is_total", FALSE)
       THEN /\ token_usage' = UsageOf(e)
            /\ UNCHANGED turn_token_usages
       ELSE /\ turn_token_usages' =
                   PerTurnUsages(turn_token_usages, Len(tool_results),
                                 UsageOf(e), Get(e, "parallel_count", 1))
            /\ UNCHANGED token_usage
    /\ UNCHANGED << thinking_text, response_text, tool_calls, tool_results,
                    is_thinking, is_responding, is_processing >>
    /\ Returned(e)

ErrorMarker(msg) == <<"\n\n[Error] ">> \o msg

\* An error branch that assigns the marker instead of appending it.
OnError_Replaces(e) ==
    /\ EventType(e) = "error"
    /\ is_processing' = FALSE
    /\ is_thinking' = FALSE
    /\ is_responding' = FALSE
    /\ response_text' = ErrorMarker(Get(e, "message", <<"Unknown error">>))
    /\ UNCHANGED << thinking_text, tool_calls, tool_results, token_usage,
                    turn_token_usages >>
    /\ Returned(e)

OnError(e) ==
    /\ EventType(e) = "error"
    /\ is_processing' = FALSE
    /\ is_thinking' = FALSE
    /\ is_responding' = FALSE
    /\ response_text' = response_text
                        \o ErrorMarker(Get(e, "message", <<"Unknown error">>))
    /\ UNCHANGED << thinking_text, tool_calls, tool_results, token_usage,
                    turn_token_usages >>
    /\ Returned(e)

KnownTypes == {"thinking", "text", "tool_call", "tool_result", "done",
               "token_usage", "error"}

\* A fall-through that clears the activity flags.
OnOther_ClearsFlags(e) ==
    /\ EventType(e) \notin KnownTypes
    /\ is_thinking' = FALSE
    /\ is_responding' = FALSE
    /\ is_processing' = FALSE
    /\ UNCHANGED << thinking_text, response_text, tool_calls, tool_results,
                    token_usage, turn_token_usages >>
    /\ Returned(e)

\* No branch of the if/elif chain matches.
OnOther(e) ==
    /\ EventType(e) \notin KnownTypes
    /\ UNCHANGED << thinking_text, response_text, tool_calls, tool_results,
                    is_thinking, is_responding, is_processing, token_usage,
                    turn_token_usages >>
    /\ Returned(e)

\* ------------------------------------------------------------------------
\* ToolCallTracker (stream/tracker.py)
\* ------------------------------------------------------------------------
\* JSON text arrives in chunks; a buffer is the sequence of chunks appended.
LBrace == "{"

RBrace == "}"

Comma == ","

MemberPwd == "\"cmd\":\"pwd\""

Members == {MemberPwd}

\* The object a single "key":value chunk denotes.
MemberDict(t) == IF t = MemberPwd THEN [cmd |-> "pwd"] ELSE EmptyDict

ArgsPwd == MemberDict(MemberPwd)

\* Whether the concatenated chunks are a JSON document: an object of members
\* separated by commas.  Anything else makes json.loads raise JSONDecodeError.
JsonWellFormed(buf) ==
    /\ Len(buf) >= 2
    /\ buf[1] = LBrace
    /\ buf[Len(buf)] = RBrace
    /\ LET inner == SubSeq(buf, 2, Len(buf) - 1)
       IN  \/ inner = << >>
           \/ /\ Len(inner) % 2 = 1
              /\ \A i \in 1..Len(inner) :
                     IF i % 2 = 1 THEN inner[i] \in Members ELSE inner[i] = Comma

\* The dict of a comma-separated member list; a repeated key keeps the last value.
RECURSIVE JsonMembers(_)
JsonMembers(inner) ==
    IF inner = << >>
    THEN EmptyDict
    ELSE JsonMembers(SubSeq(inner, 3, Len(inner))) @@ MemberDict(inner[1])

\* json.loads(buf): ok is FALSE where it raises JSONDecodeError.
JsonLoads(buf) ==
    IF JsonWellFormed(buf)
    THEN [ok |-> TRUE, value |-> JsonMembers(SubSeq(buf, 2, Len(buf) - 1))]
    ELSE [ok |-> FALSE, value |-> EmptyDict]

\* ToolCallInfo(id=tool_id, name=name, args=args, args_complete=args_complete)
ToolCallInfo(tool_id, name, args, args_complete) ==
    [id |-> tool_id, name |-> name, args |-> args, emitted |-> FALSE,
     args_complete |-> args_complete, json_buffer |-> EmptyStr]

\* tool_id in self._calls
Registered(cs, tool_id) == \E i \in 1..Len(cs) : cs[i].id = tool_id

\* Position of tool_id in the dict's insertion order.
IndexOfCall(cs, tool_id) == CHOOSE i \in 1..Len(cs) : cs[i].id = tool_id

\* `name or ""` and `args or {}`
NameOrEmpty(name) == IF name = NoneStr THEN "" ELSE name

ArgsOrEmpty(args) == IF args = PyNone THEN EmptyDict ELSE args

\* A merge that assigns whatever it is given.
MergeInfo_Overwrite(info, name, args, args_complete) ==
    [info EXCEPT
        !.name = NameOrEmpty(name),
        !.args = ArgsOrEmpty(args),
        !.args_complete = IF args_complete THEN TRUE ELSE @]

\* A merge that assigns args_complete as passed.
MergeInfo_ResetsComplete(info, name, args, args_complete) ==
    [info EXCEPT
        !.name = IF NameOrEmpty(name) # "" THEN name ELSE @,
        !.args = IF Truthy(ArgsOrEmpty(args)) THEN args ELSE @,
        !.args_complete = args_complete]

\* A merge that makes the call pending again.
MergeInfo_Unemits(info, name, args, args_complete) ==
    [info EXCEPT
        !.name = IF NameOrEmpty(name) # "" THEN name ELSE @,
        !.args = IF Truthy(ArgsOrEmpty(args)) THEN args ELSE @,
        !.args_complete = IF args_complete THEN TRUE ELSE @,
        !.emitted = FALSE]

\* The else branch of update: merge into the existing record.
MergeInfo(info, name, args, args_complete) ==
    [info EXCEPT
        !.name = IF NameOrEmpty(name) # "" THEN name ELSE @,
        !.args = IF Truthy(ArgsOrEmpty(args)) THEN args ELSE @,
        !.args_complete = IF args_complete THEN TRUE ELSE @]

UpdateCalls(cs, tool_id, name, args, args_complete) ==
    IF ~Registered(cs, tool_id)
    THEN Append(cs, ToolCallInfo(tool_id, NameOrEmpty(name), ArgsOrEmpty(args),
                                 args_complete))
    ELSE [cs EXCEPT ![IndexOfCall(cs, tool_id)] =
              MergeInfo(@, name, args, args_complete)]

\* An update that makes every id it is given the current one.
UpdateLastId_Always(cs, last, tool_id) == tool_id

\* self._last_tool_id after update
UpdateLastId(cs, last, tool_id) ==
    IF ~Registered(cs, tool_id) THEN tool_id ELSE last

\* The call append_json_delta writes to: 0 when there is none.
DeltaTarget(cs, last) ==
    IF last # NoneStr /\ last # "" /\ Registered(cs, last)
    THEN IndexOfCall(cs, last)
    ELSE 0

AppendDelta(cs, last, partial_json) ==
    IF DeltaTarget(cs, last) # 0
    THEN [cs EXCEPT ![DeltaTarget(cs, last)].json_buffer = @ \o partial_json]
    ELSE cs

\* A finalize that drops the args when the buffer does not parse.
FinalizeInfo_DropsArgs(info) ==
    [info EXCEPT
        !.args = IF info.json_buffer # EmptyStr
                 THEN JsonLoads(info.json_buffer).value
                 ELSE @,
        !.json_buffer = EmptyStr,
        !.args_complete = TRUE]

\* The body of finalize_all's loop for one record.
FinalizeInfo(info) ==
    [info EXCEPT
        !.args = IF info.json_buffer # EmptyStr /\ JsonLoads(info.json_buffer).ok
                 THEN JsonLoads(info.json_buffer).value
                 ELSE @,
        !.json_buffer = EmptyStr,
        !.args_complete = TRUE]

FinalizeAll(cs) == [i \in 1..Len(cs) |-> FinalizeInfo(cs[i])]

MarkEmitted(cs, tool_id) ==
    IF Registered(cs, tool_id)
    THEN [cs EXCEPT ![IndexOfCall(cs, tool_id)].emitted = TRUE]
    ELSE cs

\* is_ready(tool_id)
IsReady(cs, tool_id) ==
    IF ~Registered(cs, tool_id)
    THEN FALSE
    ELSE cs[IndexOfCall(cs, tool_id)].name # "" /\ ~cs[IndexOfCall(cs, tool_id)].emitted

\* get_all()
GetAll(cs) == cs

\* get_pending()
RECURSIVE GetPending(_)
GetPending(cs) ==
    IF cs = << >>
    THEN << >>
    ELSE IF ~cs[1].emitted
         THEN <<cs[1]>> \o GetPending(Tail(cs))
         ELSE GetPending(Tail(cs))

EmitAll(cs) == [i \in 1..Len(cs) |-> [cs[i] EXCEPT !.emitted = TRUE]]

InitTracker ==
    /\ calls = << >>
    /\ last_tool_id = NoneStr
    /\ t_op = [op |-> "init"]
    /\ t_nops = 0

\* The ids the tracker is driven with.
ToolIds == {"A", "B"}

\* (name, args, args_complete) of an update call; NoneStr / PyNone: left out.
UpdateInputs ==
    { <<"Bash", PyNone, FALSE>>,
      <<"Read", EmptyDict, TRUE>>,
      <<"", ArgsLs, FALSE>>,
      <<NoneStr, PyNone, FALSE>> }

\* What input_json_delta delivers: the two halves of '{}', and '{"cmd":"pwd"}'
\* in one piece.
Fragments == { <<LBrace>>, <<RBrace>>, <<LBrace, MemberPwd, RBrace>> }

TReturned(op) ==
    /\ t_nops < MaxOps
    /\ t_op' = op
    /\ t_nops' = t_nops + 1
    /\ UNCHANGED << stateVars, tokenVars, loopVars, layoutVars, formatVars,
                    emitterVars >>

update(tool_id, name, args, args_complete) ==
    /\ calls' = UpdateCalls(calls, tool_id, name, args, args_complete)
    /\ last_tool_id' = UpdateLastId(calls, last_tool_id, tool_id)
    /\ TReturned([op |-> "update", tool_id |-> tool_id, name |-> name,
                  args |-> args, args_complete |-> args_complete])

append_json_delta(partial_json) ==
    /\ calls' = AppendDelta(calls, last_tool_id, partial_json)
    /\ UNCHANGED last_tool_id
    /\ TReturned([op |-> "append_json_delta", partial_json |-> partial_json])

finalize_all ==
    /\ calls' = FinalizeAll(calls)
    /\ UNCHANGED last_tool_id
    /\ TReturned([op |-> "finalize_all"])

mark_emitted(tool_id) ==
    /\ calls' = MarkEmitted(calls, tool_id)
    /\ UNCHANGED last_tool_id
    /\ TReturned([op |-> "mark_emitted", tool_id |-> tool_id])

is_ready(tool_id) ==
    /\ UNCHANGED << calls, last_tool_id >>
    /\ TReturned([op |-> "is_ready", tool_id |-> tool_id,
                  result |-> IsReady(calls, tool_id)])

emit_all_pending ==
    /\ calls' = EmitAll(calls)
    /\ UNCHANGED last_tool_id
    /\ TReturned([op |-> "emit_all_pending", result |-> GetPending(calls)])

clear ==
    /\ calls' = << >>
    /\ UNCHANGED last_tool_id
    /\ TReturned([op |-> "clear"])

NextTracker ==
    \/ \E tool_id \in ToolIds, u \in UpdateInputs :
           update(tool_id, u[1], u[2], u[3])
    \/ update("", "Bash", PyNone, FALSE)
    \/ \E partial_json \in Fragments : append_json_delta(partial_json)
    \/ finalize_all
    \/ \E tool_id \in ToolIds : mark_emitted(tool_id)
    \/ \E tool_id \in ToolIds : is_ready(tool_id)
    \/ emit_all_pending
    \/ clear

\* ------------------------------------------------------------------------
\* TokenTracker (stream/token_tracker.py)
\* ------------------------------------------------------------------------
\* TokenUsageInfo(...)
TokenUsageInfo(input_tokens, output_tokens, total_tokens, cache_creation, cache_read) ==
    [input_tokens |-> input_tokens,
     output_tokens |-> output_tokens,
     total_tokens |-> total_tokens,
     cache_creation_input_tokens |-> cache_creation,
     cache_read_input_tokens |-> cache_read]

\* TokenUsageInfo(): every field 0
ZeroUsage == TokenUsageInfo(0, 0, 0, 0, 0)

\* An addition that leaves the cache fields of the left operand as they are.
AddUsage_NoCache(a, b) ==
    TokenUsageInfo(a.input_tokens + b.input_tokens,
                   a.output_tokens + b.output_tokens,
                   a.total_tokens + b.total_tokens,
                   a.cache_creation_input_tokens,
                   a.cache_read_input_tokens)

\* TokenUsageInfo.__add__
AddUsage(a, b) ==
    TokenUsageInfo(a.input_tokens + b.input_tokens,
                   a.output_tokens + b.output_tokens,
                   a.total_tokens + b.total_tokens,
                   a.cache_creation_input_tokens + b.cache_creation_input_tokens,
                   a.cache_read_input_tokens + b.cache_read_input_tokens)

Max(a, b) == IF a >= b THEN a ELSE b

\* _extract_usage: (input, output, cache_creation, cache_read), a missing key
\* (or a missing input_token_details) reading as 0.  The attribute-access
\* branch for non-dict usage objects reads the same four numbers.
ExtractUsage(usage) ==
    LET details == Get(usage, "input_token_details", EmptyDict)
    IN  << Get(usage, "input_tokens", 0),
           Get(usage, "output_tokens", 0),
           Get(details, "cache_creation", 0),
           Get(details, "cache_read", 0) >>

\* A merge that takes the latest reading.
MergeUsage_Latest(cur, ex) ==
    TokenUsageInfo(ex[1], ex[2], ex[1] + ex[2], ex[3], ex[4])

\* A merge that sums the readings.
MergeUsage_Sum(cur, ex) ==
    TokenUsageInfo(cur.input_tokens + ex[1],
                   cur.output_tokens + ex[2],
                   cur.input_tokens + ex[1] + cur.output_tokens + ex[2],
                   cur.cache_creation_input_tokens + ex[3],
                   cur.cache_read_input_tokens + ex[4])

\* A merge that takes the max of the totals as it does of the other fields.
MergeUsage_MaxTotal(cur, ex) ==
    TokenUsageInfo(Max(cur.input_tokens, ex[1]),
                   Max(cur.output_tokens, ex[2]),
                   Max(cur.total_tokens, ex[1] + ex[2]),
                   Max(cur.cache_creation_input_tokens, ex[3]),
                   Max(cur.cache_read_input_tokens, ex[4]))

\* The merge of update: field-wise max, total recomputed.
MergeUsage(cur, ex) ==
    LET merged_input == Max(cur.input_tokens, ex[1])
        merged_output == Max(cur.output_tokens, ex[2])
    IN  TokenUsageInfo(merged_input,
                       merged_output,
                       merged_input + merged_output,
                       Max(cur.cache_creation_input_tokens, ex[3]),
                       Max(cur.cache_read_input_tokens, ex[4]))

\* `if not usage: return` -- no usage_metadata, or an empty one.
NoUsage(usage) == usage = PyNone \/ usage = EmptyDict

\* An update that also stores a report carrying nothing but cache counts.
UpdateApplies_AnyField(usage) ==
    /\ ~NoUsage(usage)
    /\ \E i \in 1..4 : ExtractUsage(usage)[i] > 0

\* Whether update stores anything.
UpdateApplies(usage) ==
    /\ ~NoUsage(usage)
    /\ (ExtractUsage(usage)[1] > 0 \/ ExtractUsage(usage)[2] > 0)

\* A get_usage that leaves the unfinalized turn out.
GetUsage_TotalOnly(tot, cur, has) == tot

\* get_usage()
GetUsage(tot, cur, has) == IF has THEN AddUsage(tot, cur) ELSE tot

InitToken ==
    /\ current_turn = ZeroUsage
    /\ total = ZeroUsage
    /\ has_current_usage = FALSE
    /\ k_op = [op |-> "init"]
    /\ k_nops = 0

\* The usage_metadata values update is driven with: none at all, an empty
\* one, full ones, and ones with keys left out.
PlainReports ==
    { [input_tokens |-> i, output_tokens |-> o] : i \in 0..MaxTok, o \in 0..MaxTok }

CacheReports ==
    { [input_tokens |-> MaxTok, output_tokens |-> 0,
       input_token_details |-> [cache_creation |-> 1, cache_read |-> 0]],
      [input_tokens |-> MaxTok, output_tokens |-> 1,
       input_token_details |-> [cache_creation |-> 0, cache_read |-> 1]],
      [input_tokens |-> 1, output_tokens |-> 0,
       input_token_details |-> [cache_creation |-> 1, cache_read |-> 1]],
      [input_tokens |-> 0, output_tokens |-> 0,
       input_token_details |-> [cache_creation |-> 1, cache_read |-> 1]] }

PartialReports ==
    { [input_tokens |-> 1],
      [output_tokens |-> MaxTok],
      [input_tokens |-> MaxTok, input_token_details |-> [cache_read |-> 1]] }

Reports == {PyNone, EmptyDict} \cup PlainReports \cup CacheReports \cup PartialReports

KReturned(op) ==
    /\ k_nops < MaxTokenOps
    /\ k_op' = op
    /\ k_nops' = k_nops + 1
    /\ UNCHANGED << stateVars, trackerVars, loopVars, layoutVars, formatVars,
                    emitterVars >>

token_update(usage) ==
    /\ IF UpdateApplies(usage)
       THEN /\ current_turn' = MergeUsage(current_turn, ExtractUsage(usage))
            /\ has_current_usage' = TRUE
       ELSE UNCHANGED << current_turn, has_current_usage >>
    /\ UNCHANGED total
    /\ KReturned([op |-> "update", usage |-> usage])

\* A finalize_turn that adds the turn into the total but does not reset it.
finalize_turn_KeepsTurn ==
    /\ IF has_current_usage
       THEN /\ total' = AddUsage(total, current_turn)
            /\ UNCHANGED << current_turn, has_current_usage >>
            /\ KReturned([op |-> "finalize_turn", result |-> current_turn])
       ELSE /\ UNCHANGED << total, current_turn, has_current_usage >>
            /\ KReturned([op |-> "finalize_turn", result |-> PyNone])

finalize_turn ==
    /\ IF has_current_usage
       THEN /\ total' = AddUsage(total, current_turn)
            /\ current_turn' = ZeroUsage
            /\ has_current_usage' = FALSE
            /\ KReturned([op |-> "finalize_turn", result |-> current_turn])
       ELSE /\ UNCHANGED << total, current_turn, has_current_usage >>
            /\ KReturned([op |-> "finalize_turn", result |-> PyNone])

get_usage ==
    /\ UNCHANGED << total, current_turn, has_current_usage >>
    /\ KReturned([op |-> "get_usage",
                  result |-> GetUsage(total, current_turn, has_current_usage)])

reset ==
    /\ current_turn' = ZeroUsage
    /\ total' = ZeroUsage
    /\ has_current_usage' = FALSE
    /\ KReturned([op |-> "reset"])

NextToken ==
    \/ \E usage \in Reports : token_update(usage)
    \/ finalize_turn
    \/ get_usage
    \/ reset

\* No command is running.
InitLoop ==
    /\ stream = << >>
    /\ pc = "start"
    /\ live = FALSE
    /\ shown = PyNone
    /\ painted = PyNone
    /\ final = PyNone

\* Nothing has been laid out.
InitLayout ==
    /\ budget_args = PyNone
    /\ heights = PyNone
    /\ trunc_args = PyNone
    /\ truncated = PyNone

\* Nothing has been formatted.
InitFormat ==
    /\ fmt_content = << >>
    /\ fmt_result = PyNone

\* No event has been built.
InitEmitter ==
    /\ emit_call = PyNone
    /\ emitted = PyNone

\* What every specification starts from, apart from the part it is about.
Init ==
    /\ InitState /\ InitTracker /\ InitToken /\ InitLoop /\ InitLayout
    /\ InitFormat /\ InitEmitter

\* A handle_event call made on its own, outside a command.
Direct == nevents < MaxEvents /\ UNCHANGED loopVars

\* StreamState.handle_event(event), one disjunct per branch of its if/elif chain.
Next ==
    \/ \E e \in ThinkingEvents : Direct /\ OnThinking(e)
    \/ \E e \in TextEvents : Direct /\ OnText(e)
    \/ \E e \in ToolCallEvents : Direct /\ OnToolCall(e)
    \/ \E e \in ToolResultEvents : Direct /\ OnToolResult(e)
    \/ \E e \in DoneEvents : Direct /\ OnDone(e)
    \/ \E e \in TokenUsageEvents : Direct /\ OnTokenUsage(e)
    \/ \E e \in ErrorEvents : Direct /\ OnError(e)
    \/ \E e \in OtherEvents : Direct /\ OnOther(e)

Spec == Init /\ [][Next]_vars

SpecTracker == Init /\ [][NextTracker]_vars

SpecToken == Init /\ [][NextToken]_vars

\* Whether a usage_metadata honours "input_tokens already includes cache
\* tokens": input_tokens >= cache_read + cache_creation.
ReportContained(usage) ==
    ExtractUsage(usage)[1] >= ExtractUsage(usage)[3] + ExtractUsage(usage)[4]

\* Reports of a provider that honours it, among them two readings of one
\* input token, once written to the cache and once read from it.
ContainedReports ==
    { usage \in Reports : ReportContained(usage) }
    \cup
    { [input_tokens |-> 1, output_tokens |-> 0,
       input_token_details |-> [cache_creation |-> 1, cache_read |-> 0]],
      [input_tokens |-> 1, output_tokens |-> 0,
       input_token_details |-> [cache_creation |-> 0, cache_read |-> 1]] }

NextTokenContained ==
    \/ \E usage \in ContainedReports : token_update(usage)
    \/ finalize_turn
    \/ get_usage
    \/ reset

\* A TokenTracker fed only reports that honour the containment.
SpecTokenContained == Init /\ [][NextTokenContained]_vars

\* ------------------------------------------------------------------------
\* compute_height_budget (cli.py)
\* ------------------------------------------------------------------------
MaxHeight == 32
MaxTools == 3

\* Fixed overhead (borders, tool name lines, spinners, etc.)
FixedOverhead(has_thinking, has_response, has_response_placeholder, num_tools, num_results, show_processing) ==
    LET num_pending == Max(0, num_tools - num_results)
    IN  2 + (IF has_thinking THEN 2 ELSE 0)
          + (IF has_response THEN 2 ELSE 0)
          + (IF has_response_placeholder THEN 1 ELSE 0)
          + (IF show_processing THEN 1 ELSE 0)
          + num_tools
          + num_pending

\* A content budget without the floor of 6.
ContentBudget_NoFloor(terminal_height, fixed) == terminal_height - fixed

\* Available content lines
ContentBudget(terminal_height, fixed) == Max(6, terminal_height - fixed)

\* An allocation whose response share, with thinking and tools present, is a
\* fifth of the budget instead of half.
Allocate_SmallResponse(content_budget, has_thinking, has_response, num_results) ==
    IF has_response
    THEN IF has_thinking /\ num_results > 0
         THEN LET response_h == Max(3, content_budget \div 5)
                  rest == content_budget - response_h
                  thinking_h == Max(2, rest \div 3)
              IN  [thinking |-> thinking_h, response |-> response_h,
                   tool_result_budget |-> rest - thinking_h]
         ELSE IF has_thinking
         THEN LET response_h == Max(3, (content_budget * 2) \div 3)
              IN  [thinking |-> Max(2, content_budget - response_h),
                   response |-> response_h, tool_result_budget |-> 0]
         ELSE IF num_results > 0
         THEN LET response_h == Max(3, (content_budget * 3) \div 5)
              IN  [thinking |-> 0, response |-> response_h,
                   tool_result_budget |-> content_budget - response_h]
         ELSE [thinking |-> 0, response |-> content_budget, tool_result_budget |-> 0]
    ELSE IF has_thinking /\ num_results > 0
    THEN LET thinking_h == Max(3, (content_budget * 2) \div 5)
         IN  [thinking |-> thinking_h, response |-> 0,
              tool_result_budget |-> content_budget - thinking_h]
    ELSE IF has_thinking
    THEN [thinking |-> content_budget, response |-> 0, tool_result_budget |-> 0]
    ELSE IF num_results > 0
    THEN [thinking |-> 0, response |-> 0, tool_result_budget |-> content_budget]
    ELSE [thinking |-> 0, response |-> 0, tool_result_budget |-> 0]

\* An allocation that gives thinking two thirds of the remainder and the
\* tools one third.
Allocate_ThinkingBeforeTools(content_budget, has_thinking, has_response, num_results) ==
    IF has_response
    THEN IF has_thinking /\ num_results > 0
         THEN LET response_h == Max(3, content_budget \div 2)
                  rest == content_budget - response_h
                  thinking_h == Max(2, (rest * 2) \div 3)
              IN  [thinking |-> thinking_h, response |-> response_h,
                   tool_result_budget |-> rest - thinking_h]
         ELSE IF has_thinking
         THEN LET response_h == Max(3, (content_budget * 2) \div 3)
              IN  [thinking |-> Max(2, content_budget - response_h),
                   response |-> response_h, tool_result_budget |-> 0]
         ELSE IF num_results > 0
         THEN LET response_h == Max(3, (content_budget * 3) \div 5)
              IN  [thinking |-> 0, response |-> response_h,
                   tool_result_budget |-> content_budget - response_h]
         ELSE [thinking |-> 0, response |-> content_budget, tool_result_budget |-> 0]
    ELSE IF has_thinking /\ num_results > 0
    THEN LET thinking_h == Max(3, (content_budget * 2) \div 5)
         IN  [thinking |-> thinking_h, response |-> 0,
              tool_result_budget |-> content_budget - thinking_h]
    ELSE IF has_thinking
    THEN [thinking |-> content_budget, response |-> 0, tool_result_budget |-> 0]
    ELSE IF num_results > 0
    THEN [thinking |-> 0, response |-> 0, tool_result_budget |-> content_budget]
    ELSE [thinking |-> 0, response |-> 0, tool_result_budget |-> 0]

\* Allocate by priority: thinking_h, response_h and tool_result_budget.
Allocate(content_budget, has_thinking, has_response, num_results) ==
    IF has_response
    THEN IF has_thinking /\ num_results > 0
         THEN LET response_h == Max(3, content_budget \div 2)
                  rest == content_budget - response_h
                  thinking_h == Max(2, rest \div 3)
              IN  [thinking |-> thinking_h, response |-> response_h,
                   tool_result_budget |-> rest - thinking_h]
         ELSE IF has_thinking
         THEN LET response_h == Max(3, (content_budget * 2) \div 3)
              IN  [thinking |-> Max(2, content_budget - response_h),
                   response |-> response_h, tool_result_budget |-> 0]
         ELSE IF num_results > 0
         THEN LET response_h == Max(3, (content_budget * 3) \div 5)
              IN  [thinking |-> 0, response |-> response_h,
                   tool_result_budget |-> content_budget - response_h]
         ELSE [thinking |-> 0, response |-> content_budget, tool_result_budget |-> 0]
    ELSE IF has_thinking /\ num_results > 0
    THEN LET thinking_h == Max(3, (content_budget * 2) \div 5)
         IN  [thinking |-> thinking_h, response |-> 0,
              tool_result_budget |-> content_budget - thinking_h]
    ELSE IF has_thinking
    THEN [thinking |-> content_budget, response |-> 0, tool_result_budget |-> 0]
    ELSE IF num_results > 0
    THEN [thinking |-> 0, response |-> 0, tool_result_budget |-> content_budget]
    ELSE [thinking |-> 0, response |-> 0, tool_result_budget |-> 0]

\* Lines per tool result without the line reserved for token usage.
LinesPerTool_NoReserve(tool_result_budget, num_results) ==
    IF num_results > 0 /\ tool_result_budget > 0
    THEN Max(1, tool_result_budget \div num_results)
    ELSE 2

\* Display lines per tool result (-1 to reserve a line for token usage)
LinesPerTool(tool_result_budget, num_results) ==
    IF num_results > 0 /\ tool_result_budget > 0
    THEN Max(1, tool_result_budget \div num_results - 1)
    ELSE 2

\* The allocation of a call, tool_result_budget included.
AllocationOf(a) ==
    Allocate(ContentBudget(a.terminal_height,
                           FixedOverhead(a.has_thinking, a.has_response,
                                         a.has_response_placeholder, a.num_tools,
                                         a.num_results, a.show_processing)),
             a.has_thinking, a.has_response, a.num_results)

compute_height_budget(a) ==
    LET alloc == AllocationOf(a)
    IN  [thinking |-> alloc.thinking,
         response |-> alloc.response,
         lines_per_tool |-> LinesPerTool(alloc.tool_result_budget, a.num_results)]

BudgetInputs ==
    [terminal_height : -1..MaxHeight,
     has_thinking : BOOLEAN, has_response : BOOLEAN,
     has_response_placeholder : BOOLEAN,
     num_tools : 0..MaxTools, num_results : 0..MaxTools,
     show_processing : BOOLEAN]

\* A call about to be made, with any arguments.
InitBudget ==
    /\ InitState /\ InitTracker /\ InitToken /\ InitLoop /\ InitFormat
    /\ InitEmitter
    /\ budget_args \in BudgetInputs
    /\ heights = PyNone
    /\ trunc_args = PyNone
    /\ truncated = PyNone

ComputeHeights ==
    /\ heights = PyNone
    /\ heights' = compute_height_budget(budget_args)
    /\ UNCHANGED << stateVars, trackerVars, tokenVars, loopVars, formatVars, emitterVars,
                    budget_args, trunc_args, truncated >>

SpecLayout == InitBudget /\ [][ComputeHeights]_vars

\* ------------------------------------------------------------------------
\* truncate_to_lines (cli.py), a text being the sequence of its lines:
\* text.split('\n') and '\n'.join(lines) are inverse to each other
\* ------------------------------------------------------------------------
MaxTextLines == 5
MaxCap == 4

\* lines[start:] for a Python list, negative start counted from the end.
SliceFrom(lines, start) ==
    LET first == IF start < 0 THEN Max(Len(lines) + start, 0)
                 ELSE IF start > Len(lines) THEN Len(lines) ELSE start
    IN  SubSeq(lines, first + 1, Len(lines))

truncate_to_lines(text, max_lines) ==
    IF Len(text) <= max_lines
    THEN text
    ELSE << "..." >> \o SliceFrom(text, (0 - max_lines) + 1)

\* Texts of one to MaxTextLines lines, empty lines among them.
Texts ==
    UNION { [1..n -> {"l", ""}] : n \in 1..MaxTextLines }

TruncateInputs == [text : Texts, max_lines : 1..MaxCap]

\* A call about to be made, with any text and any cap >= 1.
InitTruncate ==
    /\ InitState /\ InitTracker /\ InitToken /\ InitLoop /\ InitFormat
    /\ InitEmitter
    /\ budget_args = PyNone
    /\ heights = PyNone
    /\ trunc_args \in TruncateInputs
    /\ truncated = PyNone

Truncate ==
    /\ truncated = PyNone
    /\ truncated' = [text |-> truncate_to_lines(trunc_args.text, trunc_args.max_lines)]
    /\ UNCHANGED << stateVars, trackerVars, tokenVars, loopVars, formatVars, emitterVars,
                    budget_args, heights, trunc_args >>

SpecTruncate == InitTruncate /\ [][Truncate]_vars

\* The sequences over S of length at most n.
RECURSIVE SeqsUpTo(_, _)
SeqsUpTo(S, n) ==
    IF n = 0 THEN { << >> }
    ELSE LET shorter == SeqsUpTo(S, n - 1)
         IN  shorter \cup { Append(q, x) : q \in shorter, x \in S }

\* ------------------------------------------------------------------------
\* StreamEventEmitter (stream/emitter.py): the data of the events it builds
\* ------------------------------------------------------------------------
EmitThinking(content) == [type |-> "thinking", content |-> content, id |-> 0]

EmitText(content) == [type |-> "text", content |-> content]

EmitToolCall(name, args, tool_id) ==
    [type |-> "tool_call", name |-> name, args |-> args, id |-> tool_id]

EmitToolResult(name, content) ==
    [type |-> "tool_result", name |-> name, content |-> content, success |-> TRUE]

EmitDone == [type |-> "done", response |-> EmptyStr]

EmitError(message) == [type |-> "error", message |-> message]

\* An emitter that never defaults parallel_count: it is 0 unless given.
TokenUsageData_NoParallelDefault(input_tokens, output_tokens, kwargs) ==
    [type |-> "token_usage",
     input_tokens |-> input_tokens,
     output_tokens |-> output_tokens,
     total_tokens |-> IF Get(kwargs, "total_tokens", 0) # 0
                      THEN kwargs.total_tokens
                      ELSE input_tokens + output_tokens,
     cache_creation_input_tokens |-> Get(kwargs, "cache_creation_input_tokens", 0),
     cache_read_input_tokens |-> Get(kwargs, "cache_read_input_tokens", 0),
     is_total |-> Get(kwargs, "is_total", FALSE),
     parallel_count |-> Get(kwargs, "parallel_count", 0)]

\* The data of token_usage(input_tokens, output_tokens, **kwargs): a keyword
\* that is not given takes the default of its parameter, and total_tokens is
\* total_tokens or (input_tokens + output_tokens).
TokenUsageData(input_tokens, output_tokens, kwargs) ==
    [type |-> "token_usage",
     input_tokens |-> input_tokens,
     output_tokens |-> output_tokens,
     total_tokens |-> IF Get(kwargs, "total_tokens", 0) # 0
                      THEN kwargs.total_tokens
                      ELSE input_tokens + output_tokens,
     cache_creation_input_tokens |-> Get(kwargs, "cache_creation_input_tokens", 0),
     cache_read_input_tokens |-> Get(kwargs, "cache_read_input_tokens", 0),
     is_total |-> Get(kwargs, "is_total", FALSE),
     parallel_count |-> Get(kwargs, "parallel_count", 1)]

\* An emitter that passes total_tokens on as given, 0 included.
EmitTokenUsage_NoDefaultTotal(input_tokens, output_tokens, total_tokens) ==
    [type |-> "token_usage",
     input_tokens |-> input_tokens,
     output_tokens |-> output_tokens,
     total_tokens |-> total_tokens,
     cache_creation_input_tokens |-> 0,
     cache_read_input_tokens |-> 0,
     is_total |-> FALSE,
     parallel_count |-> 1]

\* token_usage(input_tokens, output_tokens, total_tokens) with the other
\* parameters at their defaults; total_tokens or (input_tokens + output_tokens).
EmitTokenUsage(input_tokens, output_tokens, total_tokens) ==
    TokenUsageData(input_tokens, output_tokens, [total_tokens |-> total_tokens])

\* ------------------------------------------------------------------------
\* StreamEventEmitter (stream/emitter.py): one call of one constructor
\* ------------------------------------------------------------------------

\* The dataclass StreamEvent(type, data).
StreamEvent(type, data) == [type |-> type, data |-> data]

\* The keyword arguments of a call: each optional parameter is either left
\* out or given one of vals.
Optional(key, vals) == {EmptyDict} \cup {key :> v : v \in vals}

\* The constructors, each called with its required arguments and a dict of
\* the optional ones it was given.
thinking_event(content, kwargs) ==
    StreamEvent("thinking", [type |-> "thinking", content |-> content,
                             id |-> Get(kwargs, "thinking_id", 0)])

text_event(content) == StreamEvent("text", EmitText(content))

tool_call_event(name, args, kwargs) ==
    StreamEvent("tool_call", EmitToolCall(name, args, Get(kwargs, "tool_id", "")))

tool_result_event(name, content, kwargs) ==
    StreamEvent("tool_result", [type |-> "tool_result", name |-> name,
                                content |-> content,
                                success |-> Get(kwargs, "success", TRUE)])

done_event(kwargs) ==
    StreamEvent("done", [type |-> "done",
                         response |-> Get(kwargs, "response", EmptyStr)])

error_event(message) == StreamEvent("error", EmitError(message))

token_usage_event(input_tokens, output_tokens, kwargs) ==
    StreamEvent("token_usage", TokenUsageData(input_tokens, output_tokens, kwargs))

\* The keyword arguments token_usage is called with.
TokenUsageKwargs ==
    { a @@ b @@ c @@ d :
        a \in Optional("total_tokens", {0, 2 * MaxTok + 1}),
        b \in Optional("parallel_count", {1, 3}),
        c \in Optional("is_total", {TRUE}),
        d \in Optional("cache_read_input_tokens", {1}) }

Called(fn, args, kwargs, result) ==
    /\ emitted = PyNone
    /\ emit_call' = [fn |-> fn, args |-> args, kwargs |-> kwargs]
    /\ emitted' = result
    /\ UNCHANGED << stateVars, trackerVars, tokenVars, loopVars, layoutVars,
                    formatVars >>

CallThinking ==
    \E c \in {EmptyStr, <<"t">>}, kw \in Optional("thinking_id", {1}) :
        Called("thinking", << c >>, kw, thinking_event(c, kw))

CallText ==
    \E c \in {EmptyStr, <<"x">>} :
        Called("text", << c >>, EmptyDict, text_event(c))

CallToolCall ==
    \E n \in {"", "Bash"}, a \in {EmptyDict, ArgsLs},
       kw \in Optional("tool_id", ToolIds) :
        Called("tool_call", << n, a >>, kw, tool_call_event(n, a, kw))

CallToolResult ==
    \E n \in {"Bash"}, c \in {<<"ok">>, <<"bad">>},
       kw \in Optional("success", BOOLEAN) :
        Called("tool_result", << n, c >>, kw, tool_result_event(n, c, kw))

CallDone ==
    \E kw \in Optional("response", {<<"x">>}) :
        Called("done", << >>, kw, done_event(kw))

CallError ==
    \E m \in {<<"boom">>} :
        Called("error", << m >>, EmptyDict, error_event(m))

CallTokenUsage ==
    \E i \in 0..MaxTok, o \in 0..MaxTok, kw \in TokenUsageKwargs :
        Called("token_usage", << i, o >>, kw, token_usage_event(i, o, kw))

NextEmitter ==
    \/ CallThinking
    \/ CallText
    \/ CallToolCall
    \/ CallToolResult
    \/ CallDone
    \/ CallError
    \/ CallTokenUsage

SpecEmitter == Init /\ [][NextEmitter]_vars

\* ------------------------------------------------------------------------
\* is_success (stream/utils.py), on a text given as its chunks
\* ------------------------------------------------------------------------
SUCCESS_PREFIX == "[OK]"
FAILURE_PREFIX == "[FAILED]"

Whitespace == {" ", "\n", "\n\n"}

ErrorPatterns == {"Traceback (most recent call last)", "Exception:", "Error:"}

RECURSIVE LStrip(_)
LStrip(text) ==
    IF text # << >> /\ Head(text) \in Whitespace THEN LStrip(Tail(text)) ELSE text

RECURSIVE RStrip(_)
RStrip(text) ==
    IF text # << >> /\ text[Len(text)] \in Whitespace
    THEN RStrip(SubSeq(text, 1, Len(text) - 1))
    ELSE text

\* str.strip()
Strip(text) == RStrip(LStrip(text))

\* str.startswith(prefix), for a prefix that is one chunk
StartsWith(text, prefix) == text # << >> /\ Head(text) = prefix

\* Two JSON documents, the second with an error pattern inside a string.
JsonDoc == "{\"a\": 1}"
JsonErrorDoc == "{\"error\": \"Error: x\"}"

\* The chunks an error pattern occurs in.
WithErrorPattern == ErrorPatterns \cup { JsonErrorDoc }

\* any(pattern in content for pattern in error_patterns)
HasErrorPattern(content) ==
    \E i \in 1..Len(content) : content[i] \in WithErrorPattern

\* A success test that trusts the error patterns more than the [OK] prefix.
is_success_PatternsFirst(content) ==
    LET stripped == Strip(content)
    IN  IF HasErrorPattern(stripped) THEN FALSE
        ELSE ~StartsWith(stripped, FAILURE_PREFIX)

is_success(content) ==
    LET stripped == Strip(content)
    IN  IF StartsWith(stripped, SUCCESS_PREFIX) THEN TRUE
        ELSE IF StartsWith(stripped, FAILURE_PREFIX) THEN FALSE
        ELSE ~HasErrorPattern(stripped)

\* ------------------------------------------------------------------------
\* ToolResultFormatter (stream/formatter.py), on a text given as its chunks,
\* a line break being the chunk "\n"
\* ------------------------------------------------------------------------
MaxContent == 4

Heading == "# Title"

\* The chunk standing for a code fence of three backquotes.
CodeFence == "<fence>"

MdPatterns == {CodeFence, "**", "##", "- **"}

\* _extract_body: content.split("\n", 2)[2].strip(), "" if there is no third part
extract_body(content) ==
    LET breaks == { i \in 1..Len(content) : content[i] = "\n" }
    IN  IF Cardinality(breaks) >= 2
        THEN LET second == CHOOSE i \in breaks :
                               Cardinality({ j \in breaks : j < i }) = 1
             IN  Strip(SubSeq(content, second + 1, Len(content)))
        ELSE << >>

\* The chunks that begin with '{' and end with '}', or with '[' and ']'.
InBraces == { JsonDoc, JsonErrorDoc }
InBrackets == { SUCCESS_PREFIX, FAILURE_PREFIX }

\* json.loads(content) succeeds: one document and nothing else.
JsonParses(content) == Len(content) = 1 /\ content[1] \in { JsonDoc, JsonErrorDoc }

\* _is_json
is_json(content) ==
    LET stripped == Strip(content)
    IN  /\ stripped # << >>
        /\ \/ Head(stripped) \in InBraces /\ stripped[Len(stripped)] \in InBraces
           \/ Head(stripped) \in InBrackets /\ stripped[Len(stripped)] \in InBrackets
        /\ JsonParses(stripped)

\* _is_error
is_error(content) == HasErrorPattern(content)

\* _is_markdown
is_markdown(content) ==
    \/ StartsWith(content, Heading)
    \/ \E i \in 1..Len(content) : content[i] \in MdPatterns

\* A detection that looks for error patterns before it looks for JSON.
detect_type_ErrorBeforeJson(content) ==
    LET stripped == Strip(content)
    IN  IF StartsWith(stripped, SUCCESS_PREFIX)
        THEN IF is_json(extract_body(stripped)) THEN "json" ELSE "success"
        ELSE IF StartsWith(stripped, FAILURE_PREFIX) THEN "error"
        ELSE IF is_error(stripped) THEN "error"
        ELSE IF is_json(stripped) THEN "json"
        ELSE IF is_markdown(stripped) THEN "markdown"
        ELSE "text"

detect_type(content) ==
    LET stripped == Strip(content)
    IN  IF StartsWith(stripped, SUCCESS_PREFIX)
        THEN IF is_json(extract_body(stripped)) THEN "json" ELSE "success"
        ELSE IF StartsWith(stripped, FAILURE_PREFIX) THEN "error"
        ELSE IF is_json(stripped) THEN "json"
        ELSE IF is_error(stripped) THEN "error"
        ELSE IF is_markdown(stripped) THEN "markdown"
        ELSE "text"

\* format(name, content): the content_type and success of its FormattedResult.
FormattedResult(content) ==
    [content_type |-> detect_type(content), success |-> is_success(content)]

ContentChunks ==
    { SUCCESS_PREFIX, FAILURE_PREFIX, "\n", JsonDoc, JsonErrorDoc,
      "Error:", "**", Heading, "plain" }

Contents == SeqsUpTo(ContentChunks, MaxContent)

\* A call about to be made, with any content.
InitFormatCall ==
    /\ InitState /\ InitTracker /\ InitToken /\ InitLoop /\ InitLayout
    /\ InitEmitter
    /\ fmt_content \in Contents
    /\ fmt_result = PyNone

Format ==
    /\ fmt_result = PyNone
    /\ fmt_result' = FormattedResult(fmt_content)
    /\ UNCHANGED << stateVars, trackerVars, tokenVars, loopVars, layoutVars,
                    emitterVars, fmt_content >>

SpecFormat == InitFormatCall /\ [][Format]_vars

\* ------------------------------------------------------------------------
\* The consumer loop of cmd_run and cmd_interactive (cli.py)
\* ------------------------------------------------------------------------
MaxStream == 2

ListingOk == << "[OK]", "\n\n", "file1\nfile2" >>

\* The end-to-end scenario, its second tool_call carrying no name.
ScenarioTrace ==
    << [type |-> "tool_call", id |-> "A", name |-> "Bash"],
       [type |-> "tool_call", id |-> "A", args |-> ArgsLs, args_complete |-> TRUE],
       EmitToolResult("Bash", ListingOk),
       EmitTokenUsage(100, 20, 0),
       EmitDone >>

\* The same scenario with both tool_call events built by the emitter, which
\* always passes name, args and id.
ScenarioTraceEmitted ==
    << EmitToolCall("Bash", EmptyDict, "A"),
       EmitToolCall("Bash", ArgsLs, "A"),
       EmitToolResult("Bash", ListingOk),
       EmitTokenUsage(100, 20, 0),
       EmitDone >>

LoopEvents ==
    { EmitThinking(<< "t" >>), EmitText(<< "x" >>),
      EmitToolCall("Bash", ArgsLs, "A"),
      EmitToolResult("Bash", << "Error:", "boom" >>),
      EmitError(<< "boom" >>),
      [type |-> "heartbeat"] }

\* What agent.stream_events may yield during one command.
Streams == SeqsUpTo(LoopEvents, MaxStream) \cup { ScenarioTrace, ScenarioTraceEmitted }

\* StreamState.get_display_args()
get_display_args ==
    [thinking_text |-> thinking_text,
     response_text |-> response_text,
     tool_calls |-> tool_calls,
     tool_results |-> tool_results,
     turn_token_usages |-> turn_token_usages,
     is_thinking |-> is_thinking,
     is_responding |-> is_responding,
     is_processing |-> is_processing]

\* create_streaming_display(is_waiting=True)
WaitingDisplay == [is_waiting |-> TRUE]

\* The fields of the state display_final_results reads.
FinalArgs ==
    [thinking_text |-> thinking_text,
     response_text |-> response_text,
     tool_calls |-> tool_calls,
     tool_results |-> tool_results,
     token_usage |-> token_usage]

Commands == {"cmd_run", "cmd_interactive"}

\* state = StreamState(), before the Live display is entered.
InitCommand ==
    /\ InitState /\ InitTracker /\ InitToken /\ InitLayout /\ InitFormat
    /\ InitEmitter
    /\ stream \in Streams
    /\ pc = "start"
    /\ live = FALSE
    /\ shown = PyNone
    /\ painted = PyNone
    /\ final = PyNone

LoopFrame ==
    UNCHANGED << stateVars, trackerVars, tokenVars, layoutVars, formatVars,
                 emitterVars, stream >>

\* with Live(...) as live: live.update(create_streaming_display(is_waiting=True))
EnterLive ==
    /\ pc = "start"
    /\ live' = TRUE
    /\ shown' = WaitingDisplay
    /\ pc' = "receive"
    /\ UNCHANGED << painted, final >>
    /\ LoopFrame

\* for event in agent.stream_events(...): event_type = state.handle_event(event)
Consume ==
    /\ pc = "receive"
    /\ nevents < Len(stream)
    /\ LET e == stream[nevents + 1]
       IN  \/ OnThinking(e) \/ OnText(e) \/ OnToolCall(e) \/ OnToolResult(e)
           \/ OnDone(e) \/ OnTokenUsage(e) \/ OnError(e) \/ OnOther(e)
    /\ pc' = "update"
    /\ UNCHANGED << stream, live, shown, painted, final >>

\* A loop body without the forced refresh after tool_call and tool_result.
UpdateDisplay_NoForcedRefresh ==
    /\ pc = "update"
    /\ shown' = get_display_args
    /\ pc' = "receive"
    /\ UNCHANGED << live, painted, final >>
    /\ LoopFrame

\* live.update(create_streaming_display(**state.get_display_args(), ...))
UpdateDisplay ==
    /\ pc = "update"
    /\ shown' = get_display_args
    /\ pc' = IF ret \in {"tool_call", "tool_result"} THEN "refresh" ELSE "receive"
    /\ UNCHANGED << live, painted, final >>
    /\ LoopFrame

\* if event_type in ("tool_call", "tool_result"): live.refresh()
Refresh ==
    /\ pc = "refresh"
    /\ painted' = shown
    /\ pc' = "receive"
    /\ UNCHANGED << live, shown, final >>
    /\ LoopFrame

\* Live(refresh_per_second=10): the display's own timer paints what is shown.
AutoRefresh ==
    /\ live
    /\ painted # shown
    /\ painted' = shown
    /\ UNCHANGED << pc, live, shown, final >>
    /\ LoopFrame

\* The stream is exhausted: the for loop and the with block are left; a
\* transient Live display erases what it painted.
LeaveLive ==
    /\ pc = "receive"
    /\ nevents = Len(stream)
    /\ live' = FALSE
    /\ painted' = PyNone
    /\ pc' = "final"
    /\ UNCHANGED << shown, final >>
    /\ LoopFrame

\* display_final_results(state, ...)
display_final_results ==
    /\ pc = "final"
    /\ final' = FinalArgs
    /\ pc' = "returned"
    /\ UNCHANGED << live, shown, painted >>
    /\ LoopFrame

\* An interrupt handler that goes on to the final summary.
Interrupt_RendersFinal(cmd) ==
    /\ pc \in {"receive", "update", "refresh"}
    /\ live' = FALSE
    /\ painted' = PyNone
    /\ pc' = "final"
    /\ UNCHANGED << shown, final >>
    /\ LoopFrame

\* KeyboardInterrupt while the Live display is running: the with block is
\* left by the exception; cmd_run has no handler for it (`except Exception`
\* does not catch it), cmd_interactive prints "Goodbye!" and breaks.
Interrupt(cmd) ==
    /\ pc \in {"receive", "update", "refresh"}
    /\ live' = FALSE
    /\ painted' = PyNone
    /\ pc' = IF cmd = "cmd_run" THEN "interrupted" ELSE "goodbye"
    /\ UNCHANGED << shown, final >>
    /\ LoopFrame

NextCommand ==
    \/ EnterLive
    \/ Consume
    \/ UpdateDisplay
    \/ Refresh
    \/ AutoRefresh
    \/ LeaveLive
    \/ display_final_results
    \/ \E cmd \in Commands : Interrupt(cmd)

SpecCommand == InitCommand /\ [][NextCommand]_vars

\* ------------------------------------------------------------------------
\* Properties
\* ------------------------------------------------------------------------
\* A step that is a handle_event call / a tracker operation / a TokenTracker
\* operation (not a stuttering step).
EventStep == nevents' = nevents + 1

TrackerStep == t_nops' = t_nops + 1

TokenStep == k_nops' = k_nops + 1

\* C1 (as stated): after any sequence of events, len(tool_results) <=
\* len(tool_calls).
C1_ResultsNeverExceedCalls == Len(tool_results) <= Len(tool_calls)

\* C1 (amended): len(tool_results) <= len(tool_calls) is preserved by every
\* handle_event call except a tool_result event handled when no tool call is
\* without a result (len(tool_results) = len(tool_calls)).
C1_ResultsExceedCallsOnlyByOrphanResult ==
    [][ ( /\ EventStep
          /\ Len(tool_results) <= Len(tool_calls)
          /\ ~(ret' = "tool_result" /\ Len(tool_results) = Len(tool_calls)) )
        => Len(tool_results') <= Len(tool_calls') ]_vars

C1_Witness ==
    /\ ret = "tool_result"
    /\ Len(tool_results) = 2
    /\ Len(tool_calls) = 2

AtMostOneFlag ==
    /\ ~(is_thinking /\ is_responding)
    /\ ~(is_thinking /\ is_processing)
    /\ ~(is_responding /\ is_processing)

\* C2 (as stated): after any sequence of events at most one of is_thinking,
\* is_responding, is_processing is true.
C2_AtMostOneFlagAlways == AtMostOneFlag

\* C2 (amended): is_thinking and is_responding are never both true, and after
\* a thinking, text, tool_call, done or error event at most one of the three
\* flags is true; is_processing can be true together with is_thinking or
\* is_responding once a tool_result event was handled while that flag was set.
C2_FlagsExclusiveExceptProcessing ==
    /\ ~(is_thinking /\ is_responding)
    /\ (ret \in {"thinking", "text", "tool_call", "done", "error"} => AtMostOneFlag)
    /\ (~AtMostOneFlag => is_processing /\ Len(tool_results) > 0)

C2_Witness ==
    /\ ret = "tool_result"
    /\ is_processing
    /\ is_responding
    /\ ~is_thinking

\* C3: after any sequence of events, len(turn_token_usages) <=
\* len(tool_results), also after per-turn token_usage events with
\* parallel_count > 1 that back-fill placeholders.
C3_UsagesNeverExceedResults == Len(turn_token_usages) <= Len(tool_results)

C3_Witness ==
    /\ ret = "token_usage"
    /\ Get(event, "parallel_count", 1) > 1
    /\ Len(tool_results) = 3
    /\ Len(turn_token_usages) = 3
    /\ turn_token_usages[1] = PyNone
    /\ turn_token_usages[2] = PyNone

\* C4: once a call has args_complete = true, no later update,
\* append_json_delta or finalize_all changes that call's JSON buffer.
C4_CompleteBufferFrozen ==
    [][ ( /\ TrackerStep
          /\ t_op'.op \in {"update", "append_json_delta", "finalize_all"} )
        => \A i \in 1..Len(calls) :
               calls[i].args_complete
               => /\ i <= Len(calls')
                  /\ calls'[i].json_buffer = calls[i].json_buffer ]_vars

\* C5 (as stated): a tool_call event for an id already held keeps one record
\* at its position, whose name and args are the last NON-EMPTY name and args
\* seen for the id (an empty or missing one leaves the stored value).
C5_LastNonEmptyWins ==
    [][ ( /\ EventStep
          /\ ret' = "tool_call"
          /\ Get(event', "id", "") # ""
          /\ FirstIndexOf(tool_calls, Get(event', "id", "")) # 0 )
        => LET i == FirstIndexOf(tool_calls, Get(event', "id", ""))
           IN  /\ Len(tool_calls') = Len(tool_calls)
               /\ tool_calls'[i].name =
                      IF Get(event', "name", "") # ""
                      THEN event'.name ELSE tool_calls[i].name
               /\ tool_calls'[i].args =
                      IF Truthy(Get(event', "args", EmptyDict))
                      THEN event'.args ELSE tool_calls[i].args ]_vars

\* No two records of tool_calls share a non-empty id.
UniqueToolCallIds ==
    \A i, j \in 1..Len(tool_calls) :
        (tool_calls[i].id # "" /\ tool_calls[i].id = tool_calls[j].id) => i = j

\* C5 (amended): for tool_call events sharing one non-empty id, tool_calls
\* holds exactly one record for the id, at the position of its first
\* occurrence, whose name and args are those carried by the LAST tool_call
\* event for the id (a missing name reads "unknown", missing args {}; empty
\* values overwrite too); the other records are untouched.
C5_LastWriteWins ==
    /\ []UniqueToolCallIds
    /\ [][ ( /\ EventStep
             /\ ret' = "tool_call"
             /\ Get(event', "id", "") # "" )
           => LET id == event'.id
                  i == FirstIndexOf(tool_calls, id)
                  k == IF i # 0 THEN i ELSE Len(tool_calls) + 1
              IN  /\ Len(tool_calls') = (IF i # 0 THEN Len(tool_calls)
                                                 ELSE Len(tool_calls) + 1)
                  /\ \A j \in 1..Len(tool_calls) :
                         j # k => tool_calls'[j] = tool_calls[j]
                  /\ tool_calls'[k].id = id
                  /\ tool_calls'[k].name = Get(event', "name", "unknown")
                  /\ tool_calls'[k].args = Get(event', "args", EmptyDict) ]_vars

C5_Witness ==
    /\ event = [type |-> "tool_call", id |-> "A", name |-> "", args |-> EmptyDict]
    /\ Len(tool_calls) = 2
    /\ tool_calls[1] = [id |-> "A", name |-> "", args |-> EmptyDict]
    /\ tool_calls[2].id = "B"

\* The ids of the records get_all returns, in order.
RECURSIVE IdsOf(_)
IdsOf(cs) == IF cs = << >> THEN << >> ELSE <<cs[1].id>> \o IdsOf(Tail(cs))

\* C6: for any sequence of update calls, get_all returns exactly one record
\* per distinct id, in order of first registration; a non-empty name or args
\* given to a later update overwrites the stored value, and an omitted or
\* empty name or args leaves it unchanged.
C6_UpdateDedupAndMerge ==
    /\ [](\A i, j \in 1..Len(GetAll(calls)) :
              GetAll(calls)[i].id = GetAll(calls)[j].id => i = j)
    /\ [][ (TrackerStep /\ t_op'.op = "update")
           => LET id == t_op'.tool_id
                  old == GetAll(calls)
                  new == GetAll(calls')
              IN  IF \E i \in 1..Len(old) : old[i].id = id
                  THEN /\ IdsOf(new) = IdsOf(old)
                       /\ \A i \in 1..Len(old) :
                              IF old[i].id # id
                              THEN new[i] = old[i]
                              ELSE /\ new[i].name =
                                          IF t_op'.name \notin {NoneStr, ""}
                                          THEN t_op'.name ELSE old[i].name
                                   /\ new[i].args =
                                          IF t_op'.args \notin {PyNone, EmptyDict}
                                          THEN t_op'.args ELSE old[i].args
                  ELSE /\ IdsOf(new) = Append(IdsOf(old), id)
                       /\ \A i \in 1..Len(old) : new[i] = old[i]
                       /\ new[Len(new)].name =
                              (IF t_op'.name = NoneStr THEN "" ELSE t_op'.name)
                       /\ new[Len(new)].args =
                              (IF t_op'.args = PyNone THEN EmptyDict ELSE t_op'.args)
         ]_vars

C6_Witness ==
    /\ t_op = [op |-> "update", tool_id |-> "A", name |-> "", args |-> ArgsLs,
               args_complete |-> FALSE]
    /\ IdsOf(GetAll(calls)) = <<"A", "B">>
    /\ calls[1].name = "Read"
    /\ calls[1].args = ArgsLs

\* C7: args_complete of a held call is monotonic: once true it is never false
\* again under any later update (args_complete=False included),
\* append_json_delta, finalize_all, mark_emitted or emit_all_pending.
C7_ArgsCompleteMonotonic ==
    [][ (TrackerStep /\ t_op'.op # "clear")
        => \A i \in 1..Len(calls) :
               calls[i].args_complete
               => /\ i <= Len(calls')
                  /\ calls'[i].id = calls[i].id
                  /\ calls'[i].args_complete ]_vars

C7_Witness ==
    /\ t_op.op = "update"
    /\ ~t_op.args_complete
    /\ \E i \in 1..Len(calls) :
           calls[i].id = t_op.tool_id /\ calls[i].args_complete

\* C8: immediately after finalize_all every held call has an empty JSON
\* buffer and args_complete = true; a call whose buffer parsed has args equal
\* to the parsed value, a call whose buffer failed to parse or was empty keeps
\* the args it had, and the call always completes (no error).
C8_FinalizeAll ==
    /\ [](t_op.op = "finalize_all"
          => \A i \in 1..Len(calls) :
                 calls[i].json_buffer = EmptyStr /\ calls[i].args_complete)
    /\ [][ (TrackerStep /\ t_op'.op = "finalize_all")
           => /\ IdsOf(calls') = IdsOf(calls)
              /\ \A i \in 1..Len(calls) :
                     LET buf == calls[i].json_buffer
                     IN  IF JsonWellFormed(buf)
                         THEN calls'[i].args = JsonLoads(buf).value
                         ELSE calls'[i].args = calls[i].args ]_vars
    /\ [](t_nops < MaxOps => ENABLED finalize_all)

C8_Witness ==
    /\ t_op.op = "finalize_all"
    /\ Len(calls) = 2
    /\ calls[1].args = ArgsLs
    /\ calls[2].args = ArgsPwd

UsageFields ==
    {"input_tokens", "output_tokens", "total_tokens",
     "cache_creation_input_tokens", "cache_read_input_tokens"}

\* C9: within one unfinalized turn every field of the current-turn
\* accumulator is non-decreasing across each update call.
C9_UpdateMonotone ==
    [][ (TokenStep /\ k_op'.op = "update")
        => \A f \in UsageFields : current_turn'[f] >= current_turn[f] ]_vars

C9_Witness ==
    /\ k_op.op = "update"
    /\ k_op.usage = [input_tokens |-> 1]
    /\ current_turn.input_tokens = MaxTok
    /\ current_turn.output_tokens = MaxTok
    /\ current_turn.cache_read_input_tokens = 1

\* The (input, output, cache_creation, cache_read) a report carries.
Reported(usage) ==
    << IF "input_tokens" \in DOMAIN usage THEN usage.input_tokens ELSE 0,
       IF "output_tokens" \in DOMAIN usage THEN usage.output_tokens ELSE 0,
       IF "input_token_details" \in DOMAIN usage
          /\ "cache_creation" \in DOMAIN usage.input_token_details
       THEN usage.input_token_details.cache_creation ELSE 0,
       IF "input_token_details" \in DOMAIN usage
          /\ "cache_read" \in DOMAIN usage.input_token_details
       THEN usage.input_token_details.cache_read ELSE 0 >>

\* C10: update with a report whose input > 0 or output > 0 sets input,
\* output, cache_creation and cache_read of the current turn to the maximum
\* of the prior and the reported value (never the sum), total_tokens to merged
\* input + merged output, and marks the turn as having usage; repeating the
\* same report leaves the accumulator as reporting it once did.
C10_UpdateMaxMerge ==
    /\ [][ ( /\ TokenStep
             /\ k_op'.op = "update"
             /\ (Reported(k_op'.usage)[1] > 0 \/ Reported(k_op'.usage)[2] > 0) )
           => LET r == Reported(k_op'.usage)
              IN  /\ current_turn'.input_tokens = Max(current_turn.input_tokens, r[1])
                  /\ current_turn'.output_tokens = Max(current_turn.output_tokens, r[2])
                  /\ current_turn'.cache_creation_input_tokens =
                         Max(current_turn.cache_creation_input_tokens, r[3])
                  /\ current_turn'.cache_read_input_tokens =
                         Max(current_turn.cache_read_input_tokens, r[4])
                  /\ current_turn'.total_tokens =
                         current_turn'.input_tokens + current_turn'.output_tokens
                  /\ has_current_usage' ]_vars
    /\ [][ ( /\ TokenStep
             /\ k_op.op = "update"
             /\ k_op'.op = "update"
             /\ k_op'.usage = k_op.usage )
           => current_turn' = current_turn /\ has_current_usage' = has_current_usage
         ]_vars

C10_Witness ==
    /\ k_op.op = "update"
    /\ k_op.usage = [input_tokens |-> 1, output_tokens |-> MaxTok]
    /\ current_turn.input_tokens = MaxTok
    /\ current_turn.output_tokens = MaxTok
    /\ current_turn.total_tokens = 2 * MaxTok
    /\ has_current_usage
    /\ total = ZeroUsage

\* C11: finalize_turn called twice in a row returns the turn's usage the first
\* time (if the turn had usage) and none the second time, and the second call
\* leaves the total and the current-turn state unchanged.
C11_FinalizeTwice ==
    /\ [][ (TokenStep /\ k_op'.op = "finalize_turn")
           => k_op'.result = (IF has_current_usage THEN current_turn ELSE PyNone)
         ]_vars
    /\ [][ (TokenStep /\ k_op.op = "finalize_turn" /\ k_op'.op = "finalize_turn")
           => /\ k_op'.result = PyNone
              /\ total' = total
              /\ current_turn' = current_turn
              /\ has_current_usage' = has_current_usage ]_vars

C11_Witness ==
    /\ k_nops = 3
    /\ k_op = [op |-> "finalize_turn", result |-> PyNone]
    /\ total.input_tokens = MaxTok
    /\ current_turn = ZeroUsage

\* Field-wise sum of two usages, written out.
FieldSum(a, b) == [f \in UsageFields |-> a[f] + b[f]]

\* C12: the running total is the field-wise sum of the values finalize_turn
\* returned since construction or the last reset: it starts at zero, reset
\* zeroes it, every finalize_turn that returns a value adds exactly that value,
\* and nothing else changes it.
C12_TotalIsSumOfFinalized ==
    /\ (total = ZeroUsage)
    /\ [][ TokenStep
           => total' = CASE k_op'.op = "reset" -> ZeroUsage
                         [] k_op'.op = "finalize_turn" /\ k_op'.result # PyNone
                                -> FieldSum(total, k_op'.result)
                         [] OTHER -> total ]_vars

C12_Witness ==
    /\ k_nops = 4
    /\ k_op.op = "finalize_turn"
    /\ k_op.result # PyNone
    /\ k_op.result.cache_read_input_tokens = 1
    /\ total.input_tokens = k_op.result.input_tokens + 1
    /\ total.cache_read_input_tokens = 1

\* C13: get_usage returns the total when no unfinalized turn is pending and
\* total + current turn otherwise, and changes nothing of the tracker.
C13_GetUsagePure ==
    [][ (TokenStep /\ k_op'.op = "get_usage")
        => /\ k_op'.result = (IF has_current_usage
                              THEN FieldSum(total, current_turn)
                              ELSE total)
           /\ total' = total
           /\ current_turn' = current_turn
           /\ has_current_usage' = has_current_usage ]_vars

C13_Witness ==
    /\ k_nops = 4
    /\ k_op.op = "get_usage"
    /\ has_current_usage
    /\ total.input_tokens = 1
    /\ current_turn.input_tokens = MaxTok
    /\ k_op.result.input_tokens = MaxTok + 1

\* cache_read + cache_creation <= input_tokens, where there are cache tokens.
UsageContained(u) ==
    (u.cache_read_input_tokens + u.cache_creation_input_tokens > 0)
    => u.input_tokens >= u.cache_read_input_tokens + u.cache_creation_input_tokens

\* C14: provided every report passed to update has input_tokens >=
\* cache_read + cache_creation, so has every usage the tracker holds or
\* returns: the current-turn accumulator, the total, get_usage and the result
\* of finalize_turn.
C14_ContainmentPreserved ==
    /\ UsageContained(current_turn)
    /\ UsageContained(total)
    /\ UsageContained(GetUsage(total, current_turn, has_current_usage))
    /\ (k_op.op \in {"finalize_turn", "get_usage"} /\ k_op.result # PyNone
        => UsageContained(k_op.result))

\* C15: a per-turn token_usage event (is_total false) with parallel_count
\* N > 1, handled with R >= 1 tool results and fewer than R per-turn usages,
\* leaves turn_token_usages of length exactly R, its last entry the event's
\* usage with parallel_count N, the entries added before it none, and the
\* earlier entries as they were.
C15_ParallelBackFill ==
    [][ ( /\ EventStep
          /\ ret' = "token_usage"
          /\ ~Get(event', "is_total", FALSE)
          /\ Get(event', "parallel_count", 1) > 1
          /\ Len(tool_results) >= 1
          /\ Len(turn_token_usages) < Len(tool_results) )
        => LET R == Len(tool_results)
               n == Len(turn_token_usages)
           IN  /\ Len(turn_token_usages') = R
               /\ turn_token_usages'[R] =
                      WithParallel(UsageOf(event'), Get(event', "parallel_count", 1))
               /\ \A i \in (n + 1)..(R - 1) : turn_token_usages'[i] = PyNone
               /\ \A i \in 1..n : turn_token_usages'[i] = turn_token_usages[i] ]_vars

C15_Witness ==
    /\ ret = "token_usage"
    /\ nevents = 4
    /\ Len(tool_results) = 3
    /\ turn_token_usages = << PyNone, PyNone, WithParallel(Usage1, 3) >>

\* C16: whenever handle_event appends a per-turn usage, the appended entry is
\* at index len(tool_results) - 1, the entry of the most recent tool result.
C16_AppendedAtLastResult ==
    [][ ( /\ EventStep
          /\ ret' = "token_usage"
          /\ Len(turn_token_usages') > Len(turn_token_usages) )
        => Len(turn_token_usages') = Len(tool_results') ]_vars

\* C17: after a thinking event only is_thinking is true and the content is
\* appended to thinking_text; after a text event only is_responding is true
\* and the content is appended to response_text; after a tool_call event all
\* three activity flags are false.
C17_FlagsAfterContentEvents ==
    /\ [][ (EventStep /\ ret' = "thinking")
           => /\ is_thinking' /\ ~is_responding' /\ ~is_processing'
              /\ thinking_text' = thinking_text \o Get(event', "content", EmptyStr) ]_vars
    /\ [][ (EventStep /\ ret' = "text")
           => /\ is_responding' /\ ~is_thinking' /\ ~is_processing'
              /\ response_text' = response_text \o Get(event', "content", EmptyStr) ]_vars
    /\ [][ (EventStep /\ ret' = "tool_call")
           => ~is_thinking' /\ ~is_responding' /\ ~is_processing' ]_vars

C17_Witness ==
    /\ ret = "thinking"
    /\ thinking_text = << "t", "t" >>
    /\ Len(tool_results) > 0
    /\ is_thinking /\ ~is_processing

\* Whether a text event's content is part of the response text.
TextContributed(text) == \E i \in 1..Len(text) : text[i] = "x"

\* C18 as stated: a done event clears is_processing and adopts the carried
\* response exactly when no text event contributed to response_text; when
\* text events contributed, response_text is unchanged.
C18_AdoptsUnlessTextEvents ==
    [][ (EventStep /\ ret' = "done")
        => /\ ~is_processing'
           /\ response_text' = IF TextContributed(response_text)
                               THEN response_text
                               ELSE Get(event', "response", EmptyStr) ]_vars

\* C18: a done event clears is_processing and adopts the carried response
\* (empty when the event carries none) exactly when response_text is empty at
\* that moment; a non-empty response_text, whether it came from text events,
\* an error marker or an earlier done, is left unchanged.
C18_AdoptsWhenEmpty ==
    [][ (EventStep /\ ret' = "done")
        => /\ ~is_processing'
           /\ (response_text = EmptyStr
               => response_text' = Get(event', "response", EmptyStr))
           /\ (response_text # EmptyStr => response_text' = response_text) ]_vars

C18_Witness ==
    /\ ret = "done"
    /\ Get(event, "response", EmptyStr) = << "r" >>
    /\ response_text = ErrorMarker(<< "boom" >>)
    /\ ~is_processing

\* Whether `part` occurs in `text` as a run of consecutive chunks.
Contains(text, part) ==
    \E i \in 1..(Len(text) - Len(part) + 1) :
        SubSeq(text, i, i + Len(part) - 1) = part

\* C19: an error event clears all three activity flags and appends to
\* response_text an error marker containing the message ("Unknown error" when
\* the event carries none); the previous response_text is a prefix of the new
\* one, and thinking_text, tool_calls, tool_results, turn_token_usages and the
\* aggregate usage are unchanged.
C19_ErrorAppendsMarker ==
    [][ (EventStep /\ ret' = "error")
        => LET msg == Get(event', "message", << "Unknown error" >>)
               added == SubSeq(response_text', Len(response_text) + 1,
                               Len(response_text'))
           IN  /\ ~is_thinking' /\ ~is_responding' /\ ~is_processing'
               /\ Len(response_text') > Len(response_text)
               /\ SubSeq(response_text', 1, Len(response_text)) = response_text
               /\ added = ErrorMarker(msg)
               /\ Contains(added, msg)
               /\ UNCHANGED << thinking_text, tool_calls, tool_results,
                               turn_token_usages, token_usage >> ]_vars

C19_Witness ==
    /\ ret = "error"
    /\ response_text = << "x", "\n\n[Error] ", "boom" >>
    /\ ~is_thinking /\ ~is_responding /\ ~is_processing

\* C20: an event whose kind is none of thinking, text, tool_call,
\* tool_result, done, token_usage, error changes no field of the session
\* state; for every event handle_event returns the event's kind as it is
\* (None when the event has no kind).
C20_UnknownKindNoMutation ==
    /\ [][ EventStep => ret' = Get(event', "type", NoneStr) ]_vars
    /\ [][ (EventStep /\ Get(event', "type", NoneStr) \notin KnownTypes)
           => UNCHANGED << thinking_text, response_text, tool_calls,
                           tool_results, is_thinking, is_responding,
                           is_processing, token_usage, turn_token_usages >> ]_vars

C20_Witness ==
    /\ ret = "heartbeat"
    /\ event = [type |-> "heartbeat"]
    /\ is_thinking
    /\ thinking_text = << "t" >>

\* C21: a token_usage event with is_total true overwrites the aggregate usage
\* with the event's five counts (0 for a count the event does not carry) and
\* leaves turn_token_usages unchanged; a token_usage event with is_total false
\* never changes the aggregate usage.
C21_TotalOverwritesAggregate ==
    /\ [][ (EventStep /\ ret' = "token_usage" /\ Get(event', "is_total", FALSE))
           => /\ token_usage' = UsageOf(event')
              /\ turn_token_usages' = turn_token_usages ]_vars
    /\ [][ (EventStep /\ ret' = "token_usage" /\ ~Get(event', "is_total", FALSE))
           => token_usage' = token_usage ]_vars

C21_Witness ==
    /\ ret = "token_usage"
    /\ nevents = 4
    /\ event = [type |-> "token_usage", is_total |-> TRUE]
    /\ token_usage.input_tokens = 0
    /\ turn_token_usages = << Usage1 >>

\* What the end-to-end scenario is said to yield, for a given tool name.
ScenarioOutcome(name) ==
    /\ Len(tool_calls) = 1
    /\ tool_calls[1].name = name
    /\ tool_calls[1].args = ArgsLs
    /\ Len(tool_results) = 1
    /\ is_success(tool_results[1].content)
    /\ turn_token_usages = << Usage1 >>
    /\ ~is_processing

\* C22 as stated: the trace [tool_call(id=A, name=Bash), tool_call(id=A,
\* args={cmd: ls}, args_complete=true), tool_result(Bash, "[OK]\n\nfile1\nfile2"),
\* token_usage(100, 20, is_total=false), done()] yields exactly one tool call,
\* named Bash with args {cmd: ls}, one successful tool result, one per-turn
\* usage {100, 20, 120, 0, 0} and is_processing false.
C22_ScenarioAsStated ==
    (stream = ScenarioTrace /\ nevents = Len(stream)) => ScenarioOutcome("Bash")

\* C22: the same trace with both tool_call events carrying name, args and id,
\* as the emitter builds them, yields that outcome; with the second tool_call
\* carrying no name, the one tool call is named "unknown" and the rest of the
\* outcome is the same.
C22_ScenarioOutcomes ==
    /\ (stream = ScenarioTraceEmitted /\ nevents = Len(stream))
       => ScenarioOutcome("Bash")
    /\ (stream = ScenarioTrace /\ nevents = Len(stream))
       => ScenarioOutcome("unknown")

C22_Witness ==
    /\ stream = ScenarioTraceEmitted
    /\ nevents = 5
    /\ ret = "done"
    /\ pc = "returned"
    /\ final.tool_calls = << [id |-> "A", name |-> "Bash", args |-> ArgsLs] >>

\* The fixed overhead and the tools budget of the call that was made.
FixedOf(a) ==
    FixedOverhead(a.has_thinking, a.has_response, a.has_response_placeholder,
                  a.num_tools, a.num_results, a.show_processing)

ToolsBudgetOf(a) == AllocationOf(a).tool_result_budget

\* C23: for every combination of inputs (any terminal_height, 0 and negative
\* included, any booleans, any num_tools >= 0 and num_results >= 0) the
\* returned thinking and response are >= 0 and lines_per_tool >= 1.
C23_BudgetFloor ==
    heights # PyNone
    => /\ heights.thinking >= 0
       /\ heights.response >= 0
       /\ heights.lines_per_tool >= 1

C23_Witness ==
    /\ heights # PyNone
    /\ budget_args.terminal_height = -1
    /\ budget_args.has_thinking /\ budget_args.has_response
    /\ budget_args.num_tools = MaxTools /\ budget_args.num_results = MaxTools
    /\ heights = [thinking |-> 2, response |-> 3, lines_per_tool |-> 1]

\* C24: whenever terminal_height - fixed_overhead >= 6 the full layout fits:
\* fixed_overhead + thinking + response + num_results * (lines_per_tool + 1)
\* <= terminal_height.
C24_LayoutFits ==
    (heights # PyNone /\ budget_args.terminal_height - FixedOf(budget_args) >= 6)
    => FixedOf(budget_args) + heights.thinking + heights.response
       + budget_args.num_results * (heights.lines_per_tool + 1)
       <= budget_args.terminal_height

\* C25: with has_response, has_thinking and num_results > 0, for every
\* terminal_height and tool counts, the response allocation is >= the thinking
\* allocation and >= tools budget / num_results.
C25_ResponseDominates ==
    (heights # PyNone /\ budget_args.has_response /\ budget_args.has_thinking
     /\ budget_args.num_results > 0)
    => /\ heights.response >= heights.thinking
       /\ heights.response * budget_args.num_results >= ToolsBudgetOf(budget_args)
       /\ heights.response >= ToolsBudgetOf(budget_args) \div budget_args.num_results

C25_Witness ==
    /\ budget_args = [terminal_height |-> 30, has_thinking |-> TRUE,
                      has_response |-> TRUE, has_response_placeholder |-> FALSE,
                      num_tools |-> 3, num_results |-> 3, show_processing |-> FALSE]
    /\ heights = [thinking |-> 3, response |-> 10, lines_per_tool |-> 1]
    /\ ToolsBudgetOf(budget_args) = 8

TableRow(budget, hasResponse, hasThinking, hasResults) ==
    CASE hasResponse /\ hasThinking /\ hasResults ->
            LET response == Max(3, budget \div 2)
                remainder == budget - response
                thinking == Max(2, remainder \div 3)
            IN  [response |-> response, thinking |-> thinking,
                 tools |-> remainder - thinking]
      [] hasResponse /\ hasThinking /\ ~hasResults ->
            LET response == Max(3, (2 * budget) \div 3)
            IN  [response |-> response, thinking |-> Max(2, budget - response),
                 tools |-> 0]
      [] hasResponse /\ ~hasThinking /\ hasResults ->
            LET response == Max(3, (3 * budget) \div 5)
            IN  [response |-> response, thinking |-> 0, tools |-> budget - response]
      [] hasResponse /\ ~hasThinking /\ ~hasResults ->
            [response |-> budget, thinking |-> 0, tools |-> 0]
      [] ~hasResponse /\ hasThinking /\ hasResults ->
            LET thinking == Max(3, (2 * budget) \div 5)
            IN  [response |-> 0, thinking |-> thinking, tools |-> budget - thinking]
      [] ~hasResponse /\ hasThinking /\ ~hasResults ->
            [response |-> 0, thinking |-> budget, tools |-> 0]
      [] ~hasResponse /\ ~hasThinking /\ hasResults ->
            [response |-> 0, thinking |-> 0, tools |-> budget]
      [] OTHER -> [response |-> 0, thinking |-> 0, tools |-> 0]

FiveSteps(a) ==
    LET numPending == Max(0, a.num_tools - a.num_results)
        fixedOverhead == 2 + (IF a.has_thinking THEN 2 ELSE 0)
                           + (IF a.has_response THEN 2 ELSE 0)
                           + (IF a.has_response_placeholder THEN 1 ELSE 0)
                           + (IF a.show_processing THEN 1 ELSE 0)
                           + a.num_tools + numPending
        contentBudget == Max(6, a.terminal_height - fixedOverhead)
        row == TableRow(contentBudget, a.has_response, a.has_thinking,
                        a.num_results > 0)
    IN  [thinking |-> row.thinking,
         response |-> row.response,
         lines_per_tool |-> IF a.num_results > 0
                            THEN Max(1, row.tools \div a.num_results - 1)
                            ELSE 2]

\* C27: compute_height_budget returns exactly what the five-step algorithm
\* returns; the code's extra condition tool_result_budget > 0 never makes the
\* two differ, the tools budget being positive whenever num_results > 0.
C27_MatchesFiveSteps ==
    heights # PyNone
    => /\ heights = FiveSteps(budget_args)
       /\ (budget_args.num_results > 0 => ToolsBudgetOf(budget_args) > 0)

C27_Witness ==
    /\ heights # PyNone
    /\ budget_args.terminal_height = 32
    /\ ~budget_args.has_response /\ budget_args.has_thinking
    /\ budget_args.num_results = 2 /\ budget_args.num_tools = 3
    /\ budget_args.show_processing /\ ~budget_args.has_response_placeholder
    /\ heights = [thinking |-> 9, response |-> 0, lines_per_tool |-> 6]

\* The last n lines of a text.
LastLines(text, n) == SubSeq(text, Len(text) - n + 1, Len(text))

\* C28: for every text and every line cap >= 1, truncate_to_lines returns the
\* text unchanged when its line count is within the cap, and otherwise an
\* ellipsis marker line followed by exactly the last cap - 1 lines, so the
\* result never has more than cap lines.
C28_TruncateKeepsTail ==
    (truncated # PyNone /\ trunc_args.max_lines >= 1)
    => /\ IF Len(trunc_args.text) <= trunc_args.max_lines
          THEN truncated.text = trunc_args.text
          ELSE truncated.text = << "..." >>
                                \o LastLines(trunc_args.text, trunc_args.max_lines - 1)
       /\ Len(truncated.text) <= trunc_args.max_lines

\* C29: in the consumer loop, when the next event is consumed the display has
\* been updated from the state the previous event left, and if that previous
\* event was a tool_call or a tool_result, that display has been painted by
\* the forced refresh.
C29_UpdateBeforeNextEvent ==
    /\ [][ (EventStep /\ nevents >= 1) => shown = get_display_args ]_vars
    /\ [][ (EventStep /\ ret \in {"tool_call", "tool_result"})
           => painted = get_display_args ]_vars

C29_Witness ==
    /\ pc = "update"
    /\ nevents = 2
    /\ stream[1].type = "tool_call"
    /\ ret = "thinking"
    /\ painted = shown
    /\ Len(painted.tool_calls) = 1
    /\ painted.thinking_text = EmptyStr
    /\ thinking_text = << "t" >>

\* Whether the command was ended by an interrupt.
Interrupted == pc \in {"interrupted", "goodbye"}

\* C30 as stated: after an interrupt during consumption, the state accumulated
\* so far has been given to display_final_results.
C30_InterruptRendersPartial == Interrupted => final = FinalArgs

\* C30: an interrupt that reaches the consumer loop (the Live display is left
\* before the stream is exhausted) aborts the loop and ends the command,
\* raised out of cmd_run or with "Goodbye!" in cmd_interactive; the state is
\* not rolled back, nothing runs afterwards and display_final_results is never
\* given the partial state.
C30_InterruptEndsCommand ==
    /\ [][ (live /\ ~live' /\ (pc # "receive" \/ nevents < Len(stream)))
           => /\ Interrupted'
              /\ final' = PyNone
              /\ UNCHANGED stateVars ]_vars
    /\ [](Interrupted => (final = PyNone /\ ~live))
    /\ [][ ~Interrupted ]_vars

C30_Witness ==
    /\ pc = "goodbye"
    /\ nevents = 2
    /\ Len(tool_calls) = 1
    /\ thinking_text = << "t" >>
    /\ final = PyNone
    /\ ~live

\* What follows the first chunk of a text, stripped: the body after the marker.
AfterMarker(text) == Strip(Tail(text))

\* What follows the n-th line break of a text.
RECURSIVE AfterBreaks(_, _)
AfterBreaks(text, n) ==
    IF n = 0 THEN text
    ELSE IF text = << >> THEN << >>
    ELSE AfterBreaks(Tail(text), IF Head(text) = "\n" THEN n - 1 ELSE n)

\* The priority chain, for a given reading of the body of marked content.
ChainType(text, body) ==
    CASE StartsWith(text, SUCCESS_PREFIX) /\ is_json(body) -> "json"
      [] StartsWith(text, SUCCESS_PREFIX) /\ ~is_json(body) -> "success"
      [] StartsWith(text, FAILURE_PREFIX) -> "error"
      [] OTHER ->
            IF is_json(text) THEN "json"
            ELSE IF HasErrorPattern(text) THEN "error"
            ELSE IF is_markdown(text) THEN "markdown"
            ELSE "text"

C32_MarkerThenPatterns ==
    fmt_result # PyNone
    => LET text == Strip(fmt_content)
       IN  /\ StartsWith(text, SUCCESS_PREFIX) => fmt_result.success
           /\ StartsWith(text, FAILURE_PREFIX) => ~fmt_result.success
           /\ (~StartsWith(text, SUCCESS_PREFIX) /\ ~StartsWith(text, FAILURE_PREFIX))
              => (fmt_result.success <=> ~HasErrorPattern(text))

C32_Witness ==
    /\ fmt_content = << JsonErrorDoc >>
    /\ fmt_result = [content_type |-> "json", success |-> FALSE]

\* ------------------------------------------------------------------------
\* C33. Every event a constructor builds carries its own kind tag: the type
\* of the event equals the "type" entry of its data, is the kind of the
\* constructor called and is one of the seven kinds.  token_usage called
\* without total_tokens, or with total_tokens 0, reports input_tokens +
\* output_tokens as the total, and called without parallel_count reports 1.
\* ------------------------------------------------------------------------
SevenKinds ==
    {"thinking", "text", "tool_call", "tool_result", "done", "error", "token_usage"}

C33_SelfDescribingWithDefaults ==
    emitted # PyNone =>
        /\ emitted.type = emitted.data.type
        /\ emitted.type = emit_call.fn
        /\ emitted.type \in SevenKinds
        /\ emit_call.fn = "token_usage" =>
            /\ Get(emit_call.kwargs, "total_tokens", 0) = 0 =>
                   emitted.data.total_tokens = emit_call.args[1] + emit_call.args[2]
            /\ "parallel_count" \notin DOMAIN emit_call.kwargs =>
                   emitted.data.parallel_count = 1

C33_Witness ==
    /\ emitted # PyNone
    /\ emit_call.fn = "token_usage"
    /\ emit_call.args = << 1, 2 >>
    /\ emit_call.kwargs = [is_total |-> TRUE]
    /\ emitted.data.total_tokens = 3
    /\ emitted.data.parallel_count = 1

\* ------------------------------------------------------------------------
\* C34 (as stated): append_json_delta appends the fragment to the buffer of
\* the call that was registered last (the last record in registration
\* order) and changes nothing else; with no call registered it changes
\* nothing; an update of an id that is already registered does not change
\* which call receives deltas.
\* ------------------------------------------------------------------------
LastRegistered(cs) == Len(cs)

UpdateKeepsTarget ==
    (TrackerStep /\ t_op'.op = "update" /\ Registered(calls, t_op'.tool_id)) =>
        /\ DeltaTarget(calls', last_tool_id') = DeltaTarget(calls, last_tool_id)
        /\ IdsOf(calls') = IdsOf(calls)

C34_DeltaToLastRegistered ==
    [][ /\ (TrackerStep /\ t_op'.op = "append_json_delta") =>
            /\ last_tool_id' = last_tool_id
            /\ calls' = IF calls = << >>
                        THEN calls
                        ELSE [calls EXCEPT ![LastRegistered(calls)].json_buffer =
                                  @ \o t_op'.partial_json]
        /\ UpdateKeepsTarget ]_vars

\* C34 (amended): the same, except that a call registered under the empty id
\* never receives deltas: while the call registered last has the empty id,
\* append_json_delta changes nothing.
C34_DeltaToLastRegisteredNonEmpty ==
    [][ /\ (TrackerStep /\ t_op'.op = "append_json_delta") =>
            /\ last_tool_id' = last_tool_id
            /\ calls' = IF calls = << >> \/ calls[LastRegistered(calls)].id = ""
                        THEN calls
                        ELSE [calls EXCEPT ![LastRegistered(calls)].json_buffer =
                                  @ \o t_op'.partial_json]
        /\ UpdateKeepsTarget ]_vars

C34_Witness ==
    /\ t_op.op = "append_json_delta"
    /\ Len(calls) = 2
    /\ calls[1].name = "Read"
    /\ calls[1].json_buffer = EmptyStr
    /\ calls[2].json_buffer = t_op.partial_json

\* ------------------------------------------------------------------------
\* C35. The snapshot only grows: across every handle_event step the old
\* tool_results, turn_token_usages, thinking_text and response_text are
\* prefixes of the new ones, tool_calls does not get shorter and the id at
\* each of its existing positions stays the same.
\* ------------------------------------------------------------------------
IsPrefix(old, new) ==
    /\ Len(old) <= Len(new)
    /\ \A i \in 1..Len(old) : new[i] = old[i]

C35_SnapshotAppendOnly ==
    [][ EventStep =>
            /\ IsPrefix(tool_results, tool_results')
            /\ IsPrefix(turn_token_usages, turn_token_usages')
            /\ IsPrefix(thinking_text, thinking_text')
            /\ IsPrefix(response_text, response_text')
            /\ IsPrefix(IdsOf(tool_calls), IdsOf(tool_calls')) ]_vars

C35_Witness ==
    /\ EventType(event) = "tool_call"
    /\ Len(tool_calls) = 2
    /\ tool_calls[1] = [id |-> "A", name |-> "Read", args |-> EmptyDict]
    /\ event = [type |-> "tool_call", id |-> "A", name |-> "Read", args |-> EmptyDict]
    /\ Len(tool_results) = 1

\* ------------------------------------------------------------------------
\* C36. An update whose report is absent or empty, or whose input and output
\* counts are both 0 (whatever its cache counts), leaves the current-turn
\* accumulator, the total and the has-data flag as they were; and a
\* finalize_turn on a tracker without current-turn data returns none.
\* ------------------------------------------------------------------------
CarriesNoCounts(usage) ==
    \/ usage = PyNone
    \/ usage = EmptyDict
    \/ Get(usage, "input_tokens", 0) = 0 /\ Get(usage, "output_tokens", 0) = 0

C36_EmptyReportIsNoOp ==
    [][ /\ (TokenStep /\ k_op'.op = "update" /\ CarriesNoCounts(k_op'.usage)) =>
            UNCHANGED << current_turn, total, has_current_usage >>
        /\ (TokenStep /\ k_op'.op = "finalize_turn" /\ ~has_current_usage) =>
            /\ k_op'.result = PyNone
            /\ UNCHANGED << current_turn, total, has_current_usage >> ]_vars

C36_Witness ==
    /\ k_op.op = "update"
    /\ k_op.usage = [input_tokens |-> 0, output_tokens |-> 0,
                     input_token_details |-> [cache_creation |-> 1, cache_read |-> 1]]
    /\ ~has_current_usage
    /\ current_turn = ZeroUsage
    /\ total # ZeroUsage

\* ------------------------------------------------------------------------
\* C37. is_ready(id) answers true exactly when id is registered with a
\* non-empty name and has not been emitted.  emit_all_pending returns the
\* calls not yet emitted, in registration order, and leaves every call
\* emitted.  Unless the step is a clear, a call that is emitted stays where
\* it is and stays emitted, so it is never returned, ready or pending again.
\* ------------------------------------------------------------------------
NotYetEmitted(cs) == SelectSeq(cs, LAMBDA info : ~info.emitted)

C37_EmittedAtMostOnce ==
    [][ TrackerStep =>
          /\ t_op'.op = "is_ready" =>
                /\ t_op'.result =
                       (\E i \in 1..Len(calls) :
                           /\ calls[i].id = t_op'.tool_id
                           /\ calls[i].name # ""
                           /\ ~calls[i].emitted)
                /\ calls' = calls
          /\ t_op'.op = "emit_all_pending" =>
                /\ t_op'.result = NotYetEmitted(calls)
                /\ Len(calls') = Len(calls)
                /\ \A i \in 1..Len(calls) :
                       calls'[i] = [calls[i] EXCEPT !.emitted = TRUE]
          /\ t_op'.op # "clear" =>
                \A i \in 1..Len(calls) :
                    calls[i].emitted =>
                        /\ i <= Len(calls')
                        /\ calls'[i].id = calls[i].id
                        /\ calls'[i].emitted
                        /\ ~IsReady(calls', calls[i].id)
                        /\ \A j \in 1..Len(NotYetEmitted(calls')) :
                               NotYetEmitted(calls')[j].id # calls[i].id ]_vars

C37_Witness ==
    /\ t_op.op = "emit_all_pending"
    /\ Len(calls) = 2
    /\ Len(t_op.result) = 1
    /\ t_op.result[1].id = calls[2].id
    /\ calls[1].name = "Read"
    /\ calls[1].emitted /\ calls[2].emitted

\* ------------------------------------------------------------------------
\* C38. finalize_turn does not change what get_usage reports: get_usage
\* right after a finalize_turn equals get_usage right before it.
\* ------------------------------------------------------------------------
C38_FinalizeKeepsUsage ==
    [][ (TokenStep /\ k_op'.op = "finalize_turn") =>
            GetUsage(total', current_turn', has_current_usage')
                = GetUsage(total, current_turn, has_current_usage) ]_vars

C38_Witness ==
    /\ k_op.op = "finalize_turn"
    /\ k_op.result # PyNone
    /\ total # k_op.result
    /\ total.cache_read_input_tokens > 0

\* ------------------------------------------------------------------------
\* C39. In every state total_tokens = input_tokens + output_tokens, for the
\* current-turn accumulator, for the running total and for what get_usage
\* returns.
\* ------------------------------------------------------------------------
TotalIsSum(u) == u.total_tokens = u.input_tokens + u.output_tokens

C39_TotalIsInputPlusOutput ==
    /\ TotalIsSum(current_turn)
    /\ TotalIsSum(total)
    /\ TotalIsSum(GetUsage(total, current_turn, has_current_usage))
    /\ k_op.op = "get_usage" => TotalIsSum(k_op.result)

C39_Witness ==
    /\ k_op.op = "get_usage"
    /\ has_current_usage
    /\ total # ZeroUsage
    /\ current_turn.input_tokens > 0 /\ current_turn.output_tokens > 0
    /\ k_op.result.total_tokens > current_turn.total_tokens

\* ------------------------------------------------------------------------
\* C40. A tool_call event whose id is empty or missing always appends a new
\* record and leaves the records already held untouched; and in every state
\* no two records of tool_calls share a non-empty id.
\* ------------------------------------------------------------------------
C40_EmptyIdNeverDeduplicated ==
    /\ [](\A i, j \in 1..Len(tool_calls) :
             tool_calls[i].id = tool_calls[j].id =>
                 (i = j \/ tool_calls[i].id = ""))
    /\ [][ ( /\ EventStep
             /\ ret' = "tool_call"
             /\ Get(event', "id", "") = "" )
           => tool_calls' =
                  Append(tool_calls,
                         [id |-> "",
                          name |-> Get(event', "name", "unknown"),
                          args |-> Get(event', "args", EmptyDict)]) ]_vars

C40_Witness ==
    /\ nevents = 4
    /\ Len(tool_calls) = 3
    /\ tool_calls[1].id = "" /\ tool_calls[1].name = "Bash"
    /\ tool_calls[2].id = "" /\ tool_calls[2].name = "unknown"
    /\ tool_calls[3].id = "A"

=============================================================================
